---- MODULE Spec2Model ----
(***************************************************************************)
(* The multiplayer room service of kzrk (src/src/api/multiplayer_service.rs *)
(* over src/src/systems/multiplayer.rs): the rooms registry behind one      *)
(* mutex, the session registry, the SQLite mirror, and the request threads  *)
(* that run the service operations.                                         *)
(*                                                                          *)
(* Time is chrono::Utc::now() in milliseconds.  A thread takes a request    *)
(* and runs the operation's critical sections one step each, then hands     *)
(* back the response (Return).                                              *)
(*                                                                          *)
(* Specifications, all from the same Init and the same actions:             *)
(*   Spec        create, join, leave and poll on one thread as time passes  *)
(*   SpecTravel  create, join, leave and travel on one thread               *)
(*   SpecMarket  create, join, travel, trade and refuel on one thread       *)
(*   SpecConc    two threads creating, leaving, trading and refuelling      *)
(*   SpecRoom    the methods of one GameRoom called directly                *)
(***************************************************************************)
EXTENDS Integers, Sequences, FiniteSets, TLC

\* ------------------------------------------------------------------ bounds
MaxRooms == 1
MaxPlayerIds == 2
MaxTime == 6000
MaxTurn == 2
MaxPosts == 52
MaxGames == 1
MaxTrades == 2
MaxFaultyPosts == 1
MaxPairs == 2

\* ------------------------------------------------------- program constants
StartingMoney == 5000
MaxFuel == 200
MaxCargoWeight == 1000
FuelEfficiency == 15
DefaultFuelPrice == 50
DefaultMaxPlayers == 4
MaxMessages == 50
MaxContentLen == 500
StaleSeconds == 5

Threads == {1, 2}
RoomIds == 1 .. MaxRooms
PairIds == 1 .. MaxPairs
PlayerIds == 1 .. MaxPlayerIds
NoId == 0

\* ----------------------------------------------------------------- catalog
\* get_default_airports: the six airports; distance_to (Haversine over the
\* catalog's coordinates) rounded up to whole kilometres, which leaves
\* ceil(distance / 15) exact.
AirportIds == {"JFK", "LAX", "MIA", "ORD", "DEN", "SEA"}

get_default_airports ==
    [a \in AirportIds |->
        CASE a = "JFK" -> [name |-> "New York JFK"]
          [] a = "LAX" -> [name |-> "Los Angeles LAX"]
          [] a = "MIA" -> [name |-> "Miami MIA"]
          [] a = "ORD" -> [name |-> "Chicago O'Hare"]
          [] a = "DEN" -> [name |-> "Denver DEN"]
          [] a = "SEA" -> [name |-> "Seattle SEA"]]

\* base_fuel_price and the fuel_modifier of the market profile, in tenths.
AirportFuel(a) ==
    CASE a = "JFK" -> [base_fuel_price |-> 80, fuel_modifier |-> 12]
      [] a = "LAX" -> [base_fuel_price |-> 75, fuel_modifier |-> 11]
      [] a = "MIA" -> [base_fuel_price |-> 70, fuel_modifier |-> 9]
      [] a = "ORD" -> [base_fuel_price |-> 65, fuel_modifier |-> 10]
      [] a = "DEN" -> [base_fuel_price |-> 60, fuel_modifier |-> 8]
      [] a = "SEA" -> [base_fuel_price |-> 85, fuel_modifier |-> 13]

PairKm(a, b) ==
    CASE {a, b} = {"JFK", "LAX"} -> 3975
      [] {a, b} = {"JFK", "MIA"} -> 1757
      [] {a, b} = {"JFK", "ORD"} -> 1189
      [] {a, b} = {"JFK", "DEN"} -> 2611
      [] {a, b} = {"JFK", "SEA"} -> 3887
      [] {a, b} = {"LAX", "MIA"} -> 3763
      [] {a, b} = {"LAX", "ORD"} -> 2802
      [] {a, b} = {"LAX", "DEN"} -> 1385
      [] {a, b} = {"LAX", "SEA"} -> 1538
      [] {a, b} = {"MIA", "ORD"} -> 1930
      [] {a, b} = {"MIA", "DEN"} -> 2749
      [] {a, b} = {"MIA", "SEA"} -> 4380
      [] {a, b} = {"ORD", "DEN"} -> 1426
      [] {a, b} = {"ORD", "SEA"} -> 2762
      [] {a, b} = {"DEN", "SEA"} -> 1646
      [] OTHER -> 0

distance_to(a, b) == IF a = b THEN 0 ELSE PairKm(a, b)

CargoIds == {"electronics", "food", "textiles", "industrial", "luxury", "materials"}

get_default_cargo_types ==
    [c \in CargoIds |->
        CASE c = "electronics" -> [base_price |-> 500,  weight_per_unit |-> 1]
          [] c = "food"        -> [base_price |-> 100,  weight_per_unit |-> 2]
          [] c = "textiles"    -> [base_price |-> 200,  weight_per_unit |-> 3]
          [] c = "industrial"  -> [base_price |-> 300,  weight_per_unit |-> 5]
          [] c = "luxury"      -> [base_price |-> 1000, weight_per_unit |-> 1]
          [] c = "materials"   -> [base_price |-> 50,   weight_per_unit |-> 4]]

\* ---------------------------------------------------------- u32 arithmetic
\* A u32 result is kept as its two 16-bit halves, so that a product of a
\* price or unit weight (below 2^15) and a requested quantity (below 2^31)
\* is computed exactly: `overflow` tells whether the exact result left the
\* 32 bits, hi and lo are the result the wrapping arithmetic leaves.
U16 == 65536

W32(n) == [overflow |-> FALSE, hi |-> n \div U16, lo |-> n % U16]

Mul32(a, b) ==
    LET lo_prod == a * (b % U16)
        hi_prod == a * (b \div U16) + lo_prod \div U16
    IN [overflow |-> hi_prod >= U16, hi |-> hi_prod % U16, lo |-> lo_prod % U16]

Add32(x, y) ==
    LET lo_sum == x.lo + y.lo
        hi_sum == x.hi + y.hi + lo_sum \div U16
    IN [overflow |-> x.overflow \/ y.overflow \/ hi_sum >= U16,
        hi |-> hi_sum % U16, lo |-> lo_sum % U16]

\* The result as a number, when it is below 2^31.
Fits31(w) == 2 * w.hi < U16

Val32(w) == w.hi * U16 + w.lo

\* w <= m for a number m below 2^31.
Leq32(w, m) == Fits31(w) /\ Val32(w) <= m

\* -------------------------------------------------------------- Player
Min(a, b) == IF a <= b THEN a ELSE b

CeilDiv(a, b) == (a + b - 1) \div b

RECURSIVE SumOver(_, _)
SumOver(f, S) ==
    IF S = {} THEN W32(0)
    ELSE LET x == CHOOSE y \in S : TRUE IN Add32(f[x], SumOver(f, S \ {x}))

\* Player::new: 2/3 of a tank, empty hold.
PlayerNew(money, airport, max_fuel, max_cargo_weight, fuel_efficiency) ==
    [money            |-> money,
     current_airport  |-> airport,
     fuel             |-> (max_fuel * 2) \div 3,
     max_fuel         |-> max_fuel,
     cargo_inventory  |-> [c \in CargoIds |-> 0],
     max_cargo_weight |-> max_cargo_weight,
     fuel_efficiency  |-> fuel_efficiency]

\* Variant: the whole balance cannot be spent.
can_afford_less(p, cost) == p.money > cost

can_afford(p, cost) == p.money >= cost

spend_money(p, amount) ==
    IF can_afford(p, amount) THEN [p EXCEPT !.money = @ - amount] ELSE p

earn_money(p, amount) == [p EXCEPT !.money = @ + amount]

\* CargoInventory::total_weight over the cargo catalog, in u32.
total_weight(inv, cargo_types) ==
    SumOver([c \in CargoIds |->
                IF c \in DOMAIN cargo_types
                THEN Mul32(cargo_types[c].weight_per_unit, inv[c]) ELSE W32(0)],
            CargoIds)

\* additional_weight is the u32 product the caller computed.
can_carry_more_weight(p, additional_weight, cargo_types) ==
    Leq32(Add32(total_weight(p.cargo_inventory, cargo_types), additional_weight),
          p.max_cargo_weight)

consume_fuel(p, amount) ==
    IF p.fuel >= amount THEN [p EXCEPT !.fuel = @ - amount] ELSE p

add_fuel(p, amount) == [p EXCEPT !.fuel = Min(@ + amount, p.max_fuel)]

\* add_fuel for any u32 amount (a W32 value): `sum` is self.fuel + amount
\* as the wrapping arithmetic leaves it, `overflow` whether the exact sum
\* left the 32 bits, `p` the player after .min(self.max_fuel).
add_fuel_u32(p, amount) ==
    LET sum == Add32(W32(p.fuel), amount)
    IN [overflow |-> sum.overflow,
        p |-> [p EXCEPT !.fuel = IF Leq32(sum, p.max_fuel) THEN Val32(sum)
                                 ELSE p.max_fuel]]

fuel_needed_for_distance(p, distance) == CeilDiv(distance, p.fuel_efficiency)

can_travel_distance(p, distance) == p.fuel >= fuel_needed_for_distance(p, distance)

add_cargo(inv, c, q) == [inv EXCEPT ![c] = @ + q]

remove_cargo(inv, c, q) == IF inv[c] >= q THEN [inv EXCEPT ![c] = @ - q] ELSE inv

\* ------------------------------------------------------- GameStatistics
SatSub(a, b) == IF a >= b THEN a - b ELSE 0

InSeq(s, x) == \E i \in 1 .. Len(s) : s[i] = x

GameStatisticsNew ==
    [total_revenue |-> 0, total_expenses |-> 0, net_profit |-> 0,
     cargo_trades |-> 0, fuel_purchased |-> 0, distances_traveled |-> 0,
     airports_visited |-> << >>, best_single_trade |-> 0,
     most_profitable_cargo |-> ""]

record_sale(s, cargo_type, revenue) ==
    [s EXCEPT !.total_revenue = @ + revenue,
              !.net_profit = SatSub(s.total_revenue + revenue, s.total_expenses),
              !.cargo_trades = @ + 1,
              !.best_single_trade = IF revenue > @ THEN revenue ELSE @,
              !.most_profitable_cargo =
                    IF revenue > s.best_single_trade THEN cargo_type ELSE @]

\* Variant: the expense lowers net_profit and is not added to total_expenses.
record_purchase_profit_only(s, expense) ==
    [s EXCEPT !.net_profit = SatSub(s.total_revenue, s.total_expenses + expense)]

record_purchase(s, expense) ==
    [s EXCEPT !.total_expenses = @ + expense,
              !.net_profit = SatSub(s.total_revenue, s.total_expenses + expense)]

record_cargo_purchase(s, expense) ==
    [record_purchase(s, expense) EXCEPT !.cargo_trades = @ + 1]

record_fuel_purchase(s, fuel_amount, cost) ==
    record_purchase([s EXCEPT !.fuel_purchased = @ + fuel_amount], cost)

\* Variant: every arrival is appended to airports_visited.
record_travel_appends(s, airport, distance) ==
    [s EXCEPT !.distances_traveled = @ + distance,
              !.airports_visited = Append(@, airport)]

record_travel(s, airport, distance) ==
    [s EXCEPT !.distances_traveled = @ + distance,
              !.airports_visited =
                    IF InSeq(@, airport) THEN @ ELSE Append(@, airport)]

\* ------------------------------------------------------------- GameRoom
NoAirport == "-"

MarketNew(airport_id, fuel_price, cargo_types) ==
    [airport_id   |-> airport_id,
     fuel_price   |-> fuel_price,
     cargo_prices |-> [c \in DOMAIN cargo_types |-> cargo_types[c].base_price]]

\* Variant: a new player starts offline.
PlayerGameStateNewOffline(player_id, player_name, airport, t) ==
    [player_id   |-> player_id,
     player_name |-> player_name,
     player      |-> PlayerNew(StartingMoney, airport, MaxFuel, MaxCargoWeight, FuelEfficiency),
     is_online   |-> FALSE,
     last_seen   |-> t,
     joined_at   |-> t]

PlayerGameStateNew(player_id, player_name, airport, t) ==
    [player_id   |-> player_id,
     player_name |-> player_name,
     player      |-> PlayerNew(StartingMoney, airport, MaxFuel, MaxCargoWeight, FuelEfficiency),
     is_online   |-> TRUE,
     last_seen   |-> t,
     joined_at   |-> t]

\* GameRoom::new at time t.
GameRoomNew(room_id, name, host_player_id, host_player_name, max_players, airports, cargo_types, t) ==
    [id             |-> room_id,
     name           |-> name,
     host_player_id |-> host_player_id,
     max_players    |-> max_players,
     created_at     |-> t,
     game_status    |-> "WaitingForPlayers",
     shared_state   |->
        [turn_number        |-> 1,
         markets            |-> [a \in DOMAIN airports |->
                                    MarketNew(a, DefaultFuelPrice, cargo_types)],
         airports           |-> airports,
         cargo_types        |-> cargo_types,
         world_time         |-> t,
         last_market_update |-> t],
     players           |-> (host_player_id :>
                                PlayerGameStateNew(host_player_id, host_player_name, "JFK", t)),
     player_statistics |-> (host_player_id :> GameStatisticsNew),
     message_board     |-> [messages |-> << >>, max_messages |-> MaxMessages]]

OnlinePlayers(room) ==
    {id \in DOMAIN room.players : room.players[id].is_online}

OnlineCount(room) == Cardinality(OnlinePlayers(room))

\* Variant: joinable whenever the game is waiting, whatever the head count.
is_joinable_by_status(room) == room.game_status = "WaitingForPlayers"

is_joinable(room) ==
    room.game_status = "WaitingForPlayers" /\ OnlineCount(room) < room.max_players

\* Duration::num_seconds of (t - last_seen): whole seconds, truncated.
num_seconds(ms) == ms \div 1000

\* The ids the name scan of add_player can stop at: the map is iterated in
\* an arbitrary order and the scan ends at the first entry of that name.
NameMatches(room, player_name) ==
    {id \in DOMAIN room.players : room.players[id].player_name = player_name}

FirstMatches(room, player_name) ==
    IF NameMatches(room, player_name) = {} THEN {NoId}
    ELSE NameMatches(room, player_name)

\* Variant: fullness judged by the size of the roster, offline players included.
RoomIsFullByTotal(room) == Cardinality(DOMAIN room.players) >= room.max_players

RoomIsFull(room) == OnlineCount(room) >= room.max_players

\* Variant: an entry last seen exactly five seconds ago already counts as stale.
IsStaleAtFive(ps, t) == num_seconds(t - ps.last_seen) >= StaleSeconds

IsStale(ps, t) == num_seconds(t - ps.last_seen) > StaleSeconds

AddResult(ok, err, id, room) == [ok |-> ok, err |-> err, id |-> id, room |-> room]

\* Variant: a rejoin rebuilds the entry as a first join would.
add_player_rebuilds(room, player_id, player_name, starting_airport, t, first) ==
    IF RoomIsFull(room)
    THEN AddResult(FALSE, "Room is full", NoId, room)
    ELSE IF first # NoId /\ room.players[first].is_online
                         /\ ~IsStale(room.players[first], t)
    THEN AddResult(FALSE, "Player name already taken in this room", NoId, room)
    ELSE IF first # NoId
    THEN AddResult(TRUE, "", first,
            [room EXCEPT !.players[first] =
                PlayerGameStateNew(first, player_name,
                    IF starting_airport = NoAirport THEN "JFK" ELSE starting_airport, t)])
    ELSE IF player_id \in DOMAIN room.players
    THEN AddResult(FALSE, "Player already in room", NoId, room)
    ELSE AddResult(TRUE, "", player_id,
            [room EXCEPT
                !.players = @ @@ (player_id :>
                    PlayerGameStateNew(player_id, player_name,
                        IF starting_airport = NoAirport THEN "JFK" ELSE starting_airport, t)),
                !.player_statistics = (player_id :> GameStatisticsNew) @@ @])

\* Variant: no scan for the name; only the requested id is looked up.
add_player_by_id(room, player_id, player_name, starting_airport, t, first) ==
    IF RoomIsFull(room)
    THEN AddResult(FALSE, "Room is full", NoId, room)
    ELSE IF player_id \in DOMAIN room.players
    THEN AddResult(FALSE, "Player already in room", NoId, room)
    ELSE AddResult(TRUE, "", player_id,
            [room EXCEPT
                !.players = @ @@ (player_id :>
                    PlayerGameStateNew(player_id, player_name,
                        IF starting_airport = NoAirport THEN "JFK" ELSE starting_airport, t)),
                !.player_statistics = (player_id :> GameStatisticsNew) @@ @])

\* GameRoom::add_player at time t; `first` is the entry the name scan met
\* (NoId when no entry carries the name).
add_player(room, player_id, player_name, starting_airport, t, first) ==
    IF RoomIsFull(room)
    THEN AddResult(FALSE, "Room is full", NoId, room)
    ELSE IF first # NoId /\ room.players[first].is_online
                         /\ ~IsStale(room.players[first], t)
    THEN AddResult(FALSE, "Player name already taken in this room", NoId, room)
    ELSE IF first # NoId
    THEN AddResult(TRUE, "", first,
            [room EXCEPT !.players[first].is_online = TRUE,
                         !.players[first].last_seen = t])
    ELSE IF player_id \in DOMAIN room.players
    THEN AddResult(FALSE, "Player already in room", NoId, room)
    ELSE AddResult(TRUE, "", player_id,
            [room EXCEPT
                !.players = @ @@ (player_id :>
                    PlayerGameStateNew(player_id, player_name,
                        IF starting_airport = NoAirport THEN "JFK" ELSE starting_airport, t)),
                !.player_statistics = (player_id :> GameStatisticsNew) @@ @])

mark_player_offline(room, player_id, t) ==
    IF player_id \in DOMAIN room.players
    THEN [ok |-> TRUE,
          room |-> [room EXCEPT !.players[player_id].is_online = FALSE,
                                !.players[player_id].last_seen = t]]
    ELSE [ok |-> FALSE, room |-> room]

\* The map without the entry of key k.
Without(f, k) == [x \in DOMAIN f \ {k} |-> f[x]]

\* Variant: the host role stays with the player that was removed.
remove_player_keeps_host(room, player_id, next_key) ==
    IF player_id \notin DOMAIN room.players
    THEN [ok |-> FALSE, room |-> room]
    ELSE [ok |-> TRUE,
          room |-> [room EXCEPT !.players = Without(@, player_id),
                                !.player_statistics = Without(@, player_id)]]

\* remove_player: the entry and its statistics go; a host that leaves other
\* players behind hands the role to players.keys().next(), the key the
\* HashMap happens to iterate first (next_key).
remove_player(room, player_id, next_key) ==
    IF player_id \notin DOMAIN room.players
    THEN [ok |-> FALSE, room |-> room]
    ELSE [ok |-> TRUE,
          room |-> [room EXCEPT
                      !.players = Without(@, player_id),
                      !.player_statistics = Without(@, player_id),
                      !.host_player_id =
                          IF @ = player_id /\ DOMAIN room.players # {player_id}
                          THEN next_key ELSE @]]

\* The keys players.keys().next() may give once player_id is gone.
NextKeys(room, player_id) ==
    IF DOMAIN room.players \ {player_id} = {} THEN {NoId}
    ELSE DOMAIN room.players \ {player_id}

\* Variant: the activity stamp is refreshed, the online flag left as it is.
update_player_activity_stamps(room, player_id, t) ==
    IF player_id \in DOMAIN room.players
    THEN [room EXCEPT !.players[player_id].last_seen = t]
    ELSE room

update_player_activity(room, player_id, t) ==
    IF player_id \in DOMAIN room.players
    THEN [room EXCEPT !.players[player_id].last_seen = t,
                      !.players[player_id].is_online = TRUE]
    ELSE room

\* Variant: the turn counter is left alone; only the world time moves.
advance_turn_keeps_number(room, t) ==
    [room EXCEPT !.shared_state.world_time = t]

advance_turn(room, t) ==
    [room EXCEPT !.shared_state.turn_number = @ + 1,
                 !.shared_state.world_time = t]

\* Variant: a full board drops the message just pushed, not the oldest.
board_post_keeps_oldest(board, id, author_id, author_name, content, airport_id, t) ==
    IF content = 0
    THEN [ok |-> FALSE, err |-> "Message content cannot be empty", board |-> board]
    ELSE IF content > MaxContentLen
    THEN [ok |-> FALSE, err |-> "Message content cannot exceed 500 characters",
          board |-> board]
    ELSE LET pushed == Append(board.messages,
                          [id |-> id, author_id |-> author_id, author_name |-> author_name,
                           content |-> content, airport_id |-> airport_id,
                           created_at |-> t])
         IN [ok |-> TRUE, err |-> "",
             board |-> [board EXCEPT !.messages =
                          IF Len(pushed) > board.max_messages
                          THEN SubSeq(pushed, 1, board.max_messages)
                          ELSE pushed]]

\* Variant: only an empty content is refused.
board_post_any_length(board, id, author_id, author_name, content, airport_id, t) ==
    IF content = 0
    THEN [ok |-> FALSE, err |-> "Message content cannot be empty", board |-> board]
    ELSE [ok |-> TRUE, err |-> "",
          board |-> [board EXCEPT !.messages =
                        Append(@, [id |-> id, author_id |-> author_id,
                                   author_name |-> author_name, content |-> content,
                                   airport_id |-> airport_id, created_at |-> t])]]

\* MessageBoard::post_message; a message's content is its length in bytes.
board_post(board, id, author_id, author_name, content, airport_id, t) ==
    IF content = 0
    THEN [ok |-> FALSE, err |-> "Message content cannot be empty", board |-> board]
    ELSE IF content > MaxContentLen
    THEN [ok |-> FALSE, err |-> "Message content cannot exceed 500 characters",
          board |-> board]
    ELSE LET pushed == Append(board.messages,
                          [id |-> id, author_id |-> author_id, author_name |-> author_name,
                           content |-> content, airport_id |-> airport_id,
                           created_at |-> t])
         IN [ok |-> TRUE, err |-> "",
             board |-> [board EXCEPT !.messages =
                          IF Len(pushed) > board.max_messages
                          THEN SubSeq(pushed, Len(pushed) - board.max_messages + 1,
                                      Len(pushed))
                          ELSE pushed]]

\* messages.sort_by(|a, b| b.created_at.cmp(&a.created_at)): a stable sort,
\* the latest first, equal instants in the order they had.
RECURSIVE sort_by_created_desc(_)
sort_by_created_desc(s) ==
    IF s = << >> THEN << >>
    ELSE LET rest == sort_by_created_desc(Tail(s))
             later == {i \in 1 .. Len(rest) : rest[i].created_at > Head(s).created_at}
             k == Cardinality(later)
         IN SubSeq(rest, 1, k) \o <<Head(s)>> \o SubSeq(rest, k + 1, Len(rest))

\* Variant: the read keeps the board's own order, the oldest first.
board_get_messages_oldest_first(board, airport_id, limit) ==
    LET kept == SelectSeq(board.messages, LAMBDA msg : msg.airport_id = airport_id)
    IN SubSeq(kept, 1, Min(limit, Len(kept)))

AtAirport(messages, airport_id) ==
    SelectSeq(messages, LAMBDA msg : msg.airport_id = airport_id)

\* MessageBoard::get_messages(airport_id, Some(limit)).
board_get_messages(board, airport_id, limit) ==
    LET sorted == sort_by_created_desc(AtAirport(board.messages, airport_id))
    IN SubSeq(sorted, 1, Min(limit, Len(sorted)))

message_count(board, airport_id) ==
    Cardinality({i \in 1 .. Len(board.messages) :
                    board.messages[i].airport_id = airport_id})

\* ------------------------------------------------------------------ state
VARIABLES
    rooms,        \* the registry: room id -> GameRoom (HashMap behind `rooms`)
    sessions,     \* player id -> PlayerSession (HashMap behind `player_sessions`)
    db_rooms,     \* table rooms of the database: room id -> saved GameRoom
    db_sessions,  \* table sessions of the database: player id -> saved session
    rooms_lock,   \* the rooms mutex: its holder (NoId: free) and its poison flag
    now,          \* chrono::Utc::now(), milliseconds
    pc,           \* per request thread: where it stands
    call,         \* per request thread: the request it serves
    local,        \* per request thread: the operation's local variables
    resp,         \* per request thread: the response it is about to hand back
    first_id,     \* history: player name -> id the first join under it returned
    left_state,   \* history: player id -> its Player value when it last left
    game,         \* the single-player GameService: its sessions and statistics
    posted,       \* history: room id -> every message its board accepted, in order
    db_faulty,    \* environment: the database of this run may refuse a statement
    applied,      \* history: per request thread, whether its request changed rooms or sessions
    lone_player   \* a Player value of its own, driven through its methods

vars == <<rooms, sessions, db_rooms, db_sessions, rooms_lock, now,
          pc, call, local, resp, first_id, left_state, game,
          posted, db_faulty, applied, lone_player>>

\* --------------------------------------------------------------- requests
NoMax == -1

HostNames == {"A"}
PlayerNames == {"A", "B"}
MaxPlayersInputs == {NoMax, 0, 1, 9}
StartAirports == {NoAirport, "ZZZ"}
Destinations == {"ORD", "LAX", "ZZZ"}
TradeRequests ==
    {<<"luxury", 3, "Buy">>, <<"luxury", 6, "Buy">>, <<"luxury", 3, "Sell">>,
     <<"gold", 3, "Buy">>}
FuelQuantities == {20, 80, 200}
Contents == {0, 500, 501}
Elapsed == {5000, 5500, 6000}

Call(op, room, player, name, airport, cargo, quantity, action) ==
    [op |-> op, room |-> room, player |-> player, name |-> name,
     airport |-> airport, cargo |-> cargo, quantity |-> quantity, action |-> action]

NoCall == Call("none", NoId, NoId, "", "", "", 0, "")

\* The requests a thread may be handed.  quantity carries max_players
\* (create), the quantity (trade, fuel) or the content length (post);
\* airport the starting airport or the destination.
CreateCalls ==
    {Call("create_room", NoId, NoId, n, "", "", m, "") :
        n \in HostNames, m \in MaxPlayersInputs}

JoinCalls ==
    {Call("join_room", r, NoId, n, a, "", 0, "") :
        r \in RoomIds, n \in PlayerNames, a \in StartAirports}

PlayerCalls(op) ==
    {Call(op, r, p, "", "", "", 0, "") : r \in RoomIds, p \in PlayerIds}

TravelCalls ==
    {Call("player_travel", r, p, "", d, "", 0, "") :
        r \in RoomIds, p \in PlayerIds, d \in Destinations}

TradeCalls ==
    {Call("player_trade", r, p, "", "", q[1], q[2], q[3]) :
        r \in RoomIds, p \in PlayerIds, q \in TradeRequests}

FuelCalls ==
    {Call("player_buy_fuel", r, p, "", "", "", q, "") :
        r \in RoomIds, p \in PlayerIds, q \in FuelQuantities}

PostCalls ==
    {Call("post_message", r, p, "", "", "", n, "") :
        r \in RoomIds, p \in PlayerIds, n \in Contents}

ListCalls == {Call("list_rooms", NoId, NoId, "", "", "", 0, "")}

FindCalls ==
    {Call("find_player_sessions", NoId, NoId, n, "", "", 0, "") : n \in PlayerNames}

\* A response: Err(message), or Ok with the DTO's success flag, message,
\* player id and one number (the amount, the fuel consumed, a count).
Resp(kind, success, message, player_id, value) ==
    [kind |-> kind, success |-> success, message |-> message,
     player_id |-> player_id, value |-> value, items |-> << >>]

NoResp == Resp("none", FALSE, "", NoId, 0)

Err(message) == Resp("err", FALSE, message, NoId, 0)

Ok(success, message, player_id, value) == Resp("ok", success, message, player_id, value)

\* A response that carries a list (GetMessagesResponse.messages).
OkItems(items, value) == [Ok(TRUE, "", NoId, value) EXCEPT !.items = items]

LockErr == Err("Failed to acquire rooms lock")

PlayerSessionNew(player_id, player_name, room_id, t) ==
    [player_id |-> player_id, player_name |-> player_name,
     game_room_id |-> room_id, connected_at |-> t]

NoRoom == [id |-> NoId]

NoSession == [player_id |-> NoId]

Local(room_id, player_id, room, session, r) ==
    [room_id |-> room_id, player_id |-> player_id, room |-> room,
     session |-> session, resp |-> r]

NoLocal == Local(NoId, NoId, NoRoom, NoSession, NoResp)

EmptyMap == [x \in {} |-> NoId]

\* No Player value is under test.
NoPlayer == [money |-> 0, fuel |-> 0, max_fuel |-> 0]

\* Uuid::new_v4(): an id no room and no session holds.
UsedPlayerIds ==
    UNION {DOMAIN rooms[r].players : r \in DOMAIN rooms} \cup DOMAIN sessions

MinOf(S) == CHOOSE x \in S : \A y \in S : x <= y

FreshPlayerId ==
    IF PlayerIds \ UsedPlayerIds = {} THEN NoId ELSE MinOf(PlayerIds \ UsedPlayerIds)

FreshIn(ids, used) == IF ids \ used = {} THEN NoId ELSE MinOf(ids \ used)

FreshRoomId == FreshIn(RoomIds, DOMAIN rooms)

\* GameService::new: no session, no statistics, the sessions mutex sound.
GameServiceNew == [sessions |-> EmptyMap, statistics |-> EmptyMap, poisoned |-> FALSE]

\* ------------------------------------------------------------------- Init
\* MultiplayerGameService::new_in_memory: nothing loaded, every lock free.
Started(faulty) ==
    /\ rooms = EmptyMap
    /\ sessions = EmptyMap
    /\ db_rooms = EmptyMap
    /\ db_sessions = EmptyMap
    /\ rooms_lock = [holder |-> NoId, poisoned |-> FALSE]
    /\ now = 0
    /\ pc = [t \in Threads |-> "idle"]
    /\ call = [t \in Threads |-> NoCall]
    /\ local = [t \in Threads |-> NoLocal]
    /\ resp = [t \in Threads |-> NoResp]
    /\ first_id = EmptyMap
    /\ left_state = EmptyMap
    /\ game = GameServiceNew
    /\ posted = [r \in RoomIds \cup PairIds |-> << >>]
    /\ db_faulty = faulty
    /\ applied = [t \in Threads |-> FALSE]
    /\ lone_player = NoPlayer

\* A service on a sound database, and one on a database that may refuse
\* statements (a full disk, a file locked by another process).
Init == Started(FALSE)

InitFaulty == Started(TRUE)

\* The outcomes of one statement: it runs, or the database refuses it.
DbOutcomes == IF db_faulty THEN {TRUE, FALSE} ELSE {TRUE}

\* serde_json::to_string and serde_json::from_str: the value as JSON text,
\* and the value a text parses to.  A text that is not the JSON of a value
\* (a truncated row, a row of another schema) does not parse.
to_string(v) == [json |-> v]

Unparsable == [text |-> "{"]

from_str(data) ==
    IF DOMAIN data = {"json"} THEN [ok |-> TRUE, value |-> data.json]
    ELSE [ok |-> FALSE]

\* The columns save_room and save_session write (the key column is the id).
room_row(room) == [data |-> to_string(room)]

session_row(session) ==
    [player_name |-> session.player_name, data |-> to_string(session)]

\* INSERT OR IGNORE: an id that has a row keeps it.
db_save_keeps_first(table, id, row, ok) ==
    IF ok THEN table @@ (id :> row) ELSE table

\* save_room / save_session: INSERT OR REPLACE under the id; a refused
\* statement (or a database lock that is not granted) leaves the table as
\* it was and is not reported.
db_save(table, id, row, ok) == IF ok THEN (id :> row) @@ table ELSE table

\* load_all_rooms / load_all_sessions: every row whose data parses, under
\* its key; the other rows are passed over.
load_all_fails_on_bad_row(table) ==
    IF \A k \in DOMAIN table : from_str(table[k].data).ok
    THEN [k \in DOMAIN table |-> from_str(table[k].data).value]
    ELSE EmptyMap

load_all(table) ==
    [k \in {x \in DOMAIN table : from_str(table[x].data).ok} |->
        from_str(table[k].data).value]

\* find_sessions_by_player_name: the rows of that name whose data parses.
find_sessions_by_player_name(table, player_name) ==
    {from_str(table[k].data).value :
        k \in {x \in DOMAIN table : /\ table[x].player_name = player_name
                                     /\ from_str(table[x].data).ok}}

\* ------------------------------------------------------- thread plumbing
LockFree == rooms_lock.holder = NoId

Poisoned == rooms_lock.poisoned

\* The step ends the operation: the thread holds no lock and has `r` to return.
Finish(t, r) ==
    /\ pc' = [pc EXCEPT ![t] = "done"]
    /\ resp' = [resp EXCEPT ![t] = r]
    /\ local' = [local EXCEPT ![t] = NoLocal]

\* The step leaves the operation at `next` with locals `l`.
Goto(t, next, l) ==
    /\ pc' = [pc EXCEPT ![t] = next]
    /\ local' = [local EXCEPT ![t] = l]
    /\ UNCHANGED resp

Acquire(t) == rooms_lock' = [rooms_lock EXCEPT !.holder = t]

Release == rooms_lock' = [rooms_lock EXCEPT !.holder = NoId]

At(t, where, op) == pc[t] = where /\ call[t].op = op

\* An idle thread takes the request c.
Begin(t, c) ==
    /\ pc[t] = "idle"
    /\ call' = [call EXCEPT ![t] = c]

\* The first step of thread t's request, and a later one: what the request
\* has done to the registry and to the sessions so far.
Applied(t) ==
    applied' = [applied EXCEPT ![t] = rooms' # rooms \/ sessions' # sessions]

Applying(t) ==
    applied' = [applied EXCEPT ![t] = @ \/ rooms' # rooms \/ sessions' # sessions]

\* The response is handed back (or the panicked handler task is reaped).
Return(t) ==
    /\ pc[t] \in {"done", "panicked"}
    /\ pc' = [pc EXCEPT ![t] = "idle"]
    /\ call' = [call EXCEPT ![t] = NoCall]
    /\ resp' = [resp EXCEPT ![t] = NoResp]
    /\ local' = [local EXCEPT ![t] = NoLocal]
    /\ UNCHANGED <<rooms, sessions, db_rooms, db_sessions, rooms_lock, now,
                   first_id, left_state>>
    /\ UNCHANGED <<game, posted, db_faulty, lone_player>>
    /\ applied' = [applied EXCEPT ![t] = FALSE]

\* Wall-clock time passes (a finished response is handed back first).
Tick(d) ==
    /\ \A t \in Threads : pc[t] \notin {"done", "panicked"}
    /\ now + d <= MaxTime
    /\ now' = now + d
    /\ UNCHANGED <<rooms, sessions, db_rooms, db_sessions, rooms_lock,
                   pc, call, local, resp, first_id, left_state>>
    /\ UNCHANGED <<game, posted, db_faulty, applied, lone_player>>

\* ------------------------------------------------------------ create_room
\* Validation, GameRoom::new and the insert under the rooms lock.
CreateRoomInsertIn(t, c, ids) ==
    /\ Begin(t, c)
    /\ LET max_players == IF c.quantity = NoMax THEN DefaultMaxPlayers ELSE c.quantity
           host_player_id == FreshPlayerId
           room_id == FreshIn(ids, DOMAIN rooms)
           room == GameRoomNew(room_id, "room", host_player_id, c.name, max_players,
                               get_default_airports, get_default_cargo_types, now)
           session == PlayerSessionNew(host_player_id, c.name, room_id, now)
       IN IF ~(max_players >= 1 /\ max_players <= 8)
          THEN /\ Finish(t, Err("Max players must be between 1 and 8"))
               /\ UNCHANGED <<rooms, first_id>>
          ELSE /\ LockFree
               /\ IF Poisoned
                  THEN /\ Finish(t, LockErr)
                       /\ UNCHANGED <<rooms, first_id>>
                  ELSE /\ room_id # NoId
                       /\ host_player_id # NoId
                       /\ rooms' = (room_id :> room) @@ rooms
                       /\ first_id' = (<<room_id, c.name>> :> host_player_id) @@ first_id
                       /\ Goto(t, "cr_sessions",
                               Local(room_id, host_player_id, room, session, NoResp))
    /\ UNCHANGED <<sessions, db_rooms, db_sessions, rooms_lock, now, left_state>>
    /\ UNCHANGED <<game, posted, db_faulty, lone_player>>
    /\ Applied(t)

CreateRoomInsert(t, c) == CreateRoomInsertIn(t, c, RoomIds)

CreateRoomSessions(t) ==
    /\ At(t, "cr_sessions", "create_room")
    /\ sessions' = (local[t].player_id :> local[t].session) @@ sessions
    /\ Goto(t, "cr_save_room", local[t])
    /\ UNCHANGED <<rooms, db_rooms, db_sessions, rooms_lock, now, call,
                   first_id, left_state>>
    /\ UNCHANGED <<game, posted, db_faulty, lone_player>>
    /\ Applying(t)

\* save_room(&room): the room as it was built, not as the registry holds it now.
CreateRoomSaveRoom(t) ==
    /\ At(t, "cr_save_room", "create_room")
    /\ \E ok \in DbOutcomes :
         db_rooms' = db_save(db_rooms, local[t].room_id, room_row(local[t].room), ok)
    /\ Goto(t, "cr_save_session", local[t])
    /\ UNCHANGED <<rooms, sessions, db_sessions, rooms_lock, now, call,
                   first_id, left_state>>
    /\ UNCHANGED <<game, posted, db_faulty, lone_player>>
    /\ Applying(t)

CreateRoomSaveSession(t) ==
    /\ At(t, "cr_save_session", "create_room")
    /\ \E ok \in DbOutcomes :
         db_sessions' = db_save(db_sessions, local[t].player_id, session_row(local[t].session), ok)
    /\ Finish(t, Ok(TRUE, "", local[t].player_id, local[t].room_id))
    /\ UNCHANGED <<rooms, sessions, db_rooms, rooms_lock, now, call,
                   first_id, left_state>>
    /\ UNCHANGED <<game, posted, db_faulty, lone_player>>
    /\ Applying(t)

\* -------------------------------------------------------------- join_room
\* The block under the rooms lock: lookup, is_joinable, add_player.
JoinRoomAdd(t, c) ==
    /\ Begin(t, c)
    /\ LockFree
    /\ IF Poisoned
       THEN Finish(t, LockErr) /\ UNCHANGED <<rooms, first_id>>
       ELSE IF c.room \notin DOMAIN rooms
       THEN Finish(t, Err("Room not found")) /\ UNCHANGED <<rooms, first_id>>
       ELSE IF ~is_joinable(rooms[c.room])
       THEN Finish(t, Err("Room is not joinable")) /\ UNCHANGED <<rooms, first_id>>
       ELSE \E first \in FirstMatches(rooms[c.room], c.name) :
            LET res == add_player(rooms[c.room], FreshPlayerId, c.name, c.airport, now, first)
            IN IF ~res.ok
               THEN /\ rooms' = [rooms EXCEPT ![c.room] = res.room]
                    /\ Finish(t, Err(res.err))
                    /\ UNCHANGED first_id
               ELSE /\ res.id # NoId
                    /\ rooms' = [rooms EXCEPT ![c.room] = res.room]
                    /\ first_id' = first_id @@ (<<c.room, c.name>> :> res.id)
                    /\ Goto(t, "jr_sessions",
                            Local(c.room, res.id, NoRoom,
                                  PlayerSessionNew(res.id, c.name, c.room, now), NoResp))
    /\ UNCHANGED <<sessions, db_rooms, db_sessions, rooms_lock, now, left_state>>
    /\ UNCHANGED <<game, posted, db_faulty, lone_player>>
    /\ Applied(t)

JoinRoomSessions(t) ==
    /\ At(t, "jr_sessions", "join_room")
    /\ sessions' = (local[t].player_id :> local[t].session) @@ sessions
    /\ Goto(t, "jr_save_session", local[t])
    /\ UNCHANGED <<rooms, db_rooms, db_sessions, rooms_lock, now, call,
                   first_id, left_state>>
    /\ UNCHANGED <<game, posted, db_faulty, lone_player>>
    /\ Applying(t)

\* Variant: a refused save_session is reported to the caller.
JoinRoomSaveSessionReports(t) ==
    /\ At(t, "jr_save_session", "join_room")
    /\ \E ok \in DbOutcomes :
         /\ db_sessions' = db_save(db_sessions, local[t].player_id, session_row(local[t].session), ok)
         /\ IF ok
            THEN Finish(t, Ok(TRUE, "Successfully joined room", local[t].player_id, 0))
            ELSE Finish(t, Err("Database error"))
    /\ UNCHANGED <<rooms, sessions, db_rooms, rooms_lock, now, call,
                   first_id, left_state>>
    /\ UNCHANGED <<game, posted, db_faulty, lone_player>>
    /\ Applying(t)

JoinRoomSaveSession(t) ==
    /\ At(t, "jr_save_session", "join_room")
    /\ \E ok \in DbOutcomes :
         db_sessions' = db_save(db_sessions, local[t].player_id, session_row(local[t].session), ok)
    /\ Finish(t, Ok(TRUE, "Successfully joined room", local[t].player_id, 0))
    /\ UNCHANGED <<rooms, sessions, db_rooms, rooms_lock, now, call,
                   first_id, left_state>>
    /\ UNCHANGED <<game, posted, db_faulty, lone_player>>
    /\ Applying(t)

\* ------------------------------------------------------------- leave_room
\* Variant: a room whose players are all offline is finished.
finish_when_all_offline(room) ==
    IF OnlineCount(room) = 0
    THEN [room EXCEPT !.game_status = "Finished"]
    ELSE room

\* The room goes back to waiting when its last online player has left.
reset_when_all_offline(room) ==
    IF OnlineCount(room) = 0
    THEN [room EXCEPT !.game_status = "WaitingForPlayers"]
    ELSE room

\* mark_player_offline and the all-offline reset; the guard stays alive
\* over save_room(room).
LeaveRoomMark(t, c) ==
    /\ Begin(t, c)
    /\ LockFree
    /\ IF Poisoned
       THEN /\ Finish(t, LockErr)
            /\ UNCHANGED <<rooms, rooms_lock, left_state>>
       ELSE IF c.room \notin DOMAIN rooms
       THEN /\ Goto(t, "lr_sessions", NoLocal)
            /\ UNCHANGED <<rooms, rooms_lock, left_state>>
       ELSE LET res == mark_player_offline(rooms[c.room], c.player, now)
                marked == reset_when_all_offline(res.room)
            IN IF ~res.ok
               THEN /\ rooms' = [rooms EXCEPT ![c.room] = res.room]
                    /\ Finish(t, Err("Player not in room"))
                    /\ UNCHANGED <<rooms_lock, left_state>>
               ELSE /\ rooms' = [rooms EXCEPT ![c.room] = marked]
                    /\ left_state' = (<<c.room, c.player>> :>
                                        [player |-> rooms[c.room].players[c.player].player,
                                         joined_at |-> rooms[c.room].players[c.player].joined_at])
                                     @@ left_state
                    /\ Acquire(t)
                    /\ Goto(t, "lr_save_room", NoLocal)
    /\ UNCHANGED <<sessions, db_rooms, db_sessions, now, first_id>>
    /\ UNCHANGED <<game, posted, db_faulty, lone_player>>
    /\ Applied(t)

LeaveRoomSaveRoom(t) ==
    /\ At(t, "lr_save_room", "leave_room")
    /\ \E ok \in DbOutcomes :
         db_rooms' = db_save(db_rooms, call[t].room, room_row(rooms[call[t].room]), ok)
    /\ Release
    /\ Goto(t, "lr_sessions", NoLocal)
    /\ UNCHANGED <<rooms, sessions, db_sessions, now, call, first_id, left_state>>
    /\ UNCHANGED <<game, posted, db_faulty, lone_player>>
    /\ Applying(t)

\* The session forgets its room in memory only; the database row is not rewritten.
LeaveRoomSessions(t) ==
    /\ At(t, "lr_sessions", "leave_room")
    /\ sessions' = IF call[t].player \in DOMAIN sessions
                   THEN [sessions EXCEPT ![call[t].player].game_room_id = NoId]
                   ELSE sessions
    /\ Finish(t, Ok(TRUE, "Successfully left room", NoId, 0))
    /\ UNCHANGED <<rooms, db_rooms, db_sessions, rooms_lock, now, call,
                   first_id, left_state>>
    /\ UNCHANGED <<game, posted, db_faulty, lone_player>>
    /\ Applying(t)

\* --------------------------------------------------------- get_room_state
\* First lock: the room must exist.
GetRoomStateCheck(t, c) ==
    /\ Begin(t, c)
    /\ LockFree
    /\ IF Poisoned THEN Finish(t, LockErr)
       ELSE IF c.room \notin DOMAIN rooms THEN Finish(t, Err("Room not found"))
       ELSE Goto(t, "gs_update", NoLocal)
    /\ UNCHANGED <<rooms, sessions, db_rooms, db_sessions, rooms_lock, now,
                   first_id, left_state>>
    /\ UNCHANGED <<game, posted, db_faulty, lone_player>>
    /\ Applied(t)

\* Second lock: update_player_activity.
GetRoomStateUpdate(t) ==
    /\ At(t, "gs_update", "get_room_state")
    /\ LockFree
    /\ IF Poisoned
       THEN Finish(t, LockErr) /\ UNCHANGED rooms
       ELSE /\ rooms' = IF call[t].room \in DOMAIN rooms
                        THEN [rooms EXCEPT ![call[t].room] =
                                update_player_activity(@, call[t].player, now)]
                        ELSE rooms
            /\ Goto(t, "gs_build", NoLocal)
    /\ UNCHANGED <<sessions, db_rooms, db_sessions, rooms_lock, now, call,
                   first_id, left_state>>
    /\ UNCHANGED <<game, posted, db_faulty, lone_player>>
    /\ Applying(t)

\* Third lock: membership check and the response (value: current_players).
GetRoomStateBuild(t) ==
    /\ At(t, "gs_build", "get_room_state")
    /\ LockFree
    /\ LET c == call[t] IN
       IF Poisoned THEN Finish(t, LockErr)
       ELSE IF c.room \notin DOMAIN rooms THEN Finish(t, Err("Room not found"))
       ELSE IF c.player \notin DOMAIN rooms[c.room].players
       THEN Finish(t, Err("Player not in room"))
       ELSE IF rooms[c.room].players[c.player].player.current_airport
                  \notin DOMAIN rooms[c.room].shared_state.airports
       THEN Finish(t, Err("Current airport not found"))
       ELSE Finish(t, Ok(TRUE, "", c.player, OnlineCount(rooms[c.room])))
    /\ UNCHANGED <<rooms, sessions, db_rooms, db_sessions, rooms_lock, now, call,
                   first_id, left_state>>
    /\ UNCHANGED <<game, posted, db_faulty, lone_player>>
    /\ Applying(t)

\* ---------------------------------------------------------- player_travel
\* Lookups, the fuel check, the move, record_travel and advance_turn; the
\* guard stays alive over save_room(room).
PlayerTravelWithin(t, c, turns) ==
    /\ Begin(t, c)
    /\ LockFree
    /\ IF Poisoned
       THEN Finish(t, LockErr) /\ UNCHANGED <<rooms, rooms_lock>>
       ELSE IF c.room \notin DOMAIN rooms
       THEN Finish(t, Err("Room not found")) /\ UNCHANGED <<rooms, rooms_lock>>
       ELSE LET room == rooms[c.room]
                airports == room.shared_state.airports
            IN
            IF c.airport \notin DOMAIN airports
            THEN Finish(t, Err("Destination airport not found"))
                 /\ UNCHANGED <<rooms, rooms_lock>>
            ELSE IF c.player \notin DOMAIN room.players
            THEN Finish(t, Err("Player not found in room"))
                 /\ UNCHANGED <<rooms, rooms_lock>>
            ELSE IF room.players[c.player].player.current_airport \notin DOMAIN airports
            THEN Finish(t, Err("Current airport not found"))
                 /\ UNCHANGED <<rooms, rooms_lock>>
            ELSE LET p == room.players[c.player].player
                     distance == distance_to(p.current_airport, c.airport)
                     fuel_required == fuel_needed_for_distance(p, distance)
                     moved == [consume_fuel(p, fuel_required)
                                  EXCEPT !.current_airport = c.airport]
                     after == advance_turn(
                                [room EXCEPT
                                    !.players[c.player].player = moved,
                                    !.player_statistics =
                                        IF c.player \in DOMAIN @
                                        THEN [@ EXCEPT ![c.player] =
                                                record_travel(@, c.airport, distance)]
                                        ELSE @],
                                now)
                 IN IF ~can_travel_distance(p, distance)
                    THEN Finish(t, Ok(FALSE,
                            "Insufficient fuel. Need " \o ToString(fuel_required)
                                \o " units, have " \o ToString(p.fuel), NoId, 0))
                         /\ UNCHANGED <<rooms, rooms_lock>>
                    ELSE /\ room.shared_state.turn_number < turns
                         /\ rooms' = [rooms EXCEPT ![c.room] = after]
                         /\ Acquire(t)
                         /\ Goto(t, "pt_save_room",
                                 Local(c.room, c.player, NoRoom, NoSession,
                                       Ok(TRUE, "Traveled to " \o airports[c.airport].name,
                                          NoId, fuel_required)))
    /\ UNCHANGED <<sessions, db_rooms, db_sessions, now, first_id, left_state>>
    /\ UNCHANGED <<game, posted, db_faulty, lone_player>>
    /\ Applied(t)

PlayerTravelMove(t, c) == PlayerTravelWithin(t, c, MaxTurn)

\* A second leg of the same journey.
PlayerTravelOn(t, c) == PlayerTravelWithin(t, c, MaxTurn + 1)

PlayerTravelSaveRoom(t) ==
    /\ At(t, "pt_save_room", "player_travel")
    /\ \E ok \in DbOutcomes :
         db_rooms' = db_save(db_rooms, call[t].room, room_row(rooms[call[t].room]), ok)
    /\ Release
    /\ Finish(t, local[t].resp)
    /\ UNCHANGED <<rooms, sessions, db_sessions, now, call, first_id, left_state>>
    /\ UNCHANGED <<game, posted, db_faulty, lone_player>>
    /\ Applying(t)

\* ----------------------------------------------------------- player_trade
TradeFail(message) == Ok(FALSE, message, NoId, 0)

\* Variant: a Buy loads the cargo before it looks at the money.
trade_outcome_loads_first(room, c) ==
    IF c.player \notin DOMAIN room.players
    THEN [applied |-> FALSE, room |-> room, resp |-> Err("Player not found in room")]
    ELSE LET p == room.players[c.player].player
             markets == room.shared_state.markets
             cargo_types == room.shared_state.cargo_types
         IN
         IF p.current_airport \notin DOMAIN markets
         THEN [applied |-> FALSE, room |-> room,
               resp |-> Err("No market available at current location")]
         ELSE IF c.cargo \notin DOMAIN markets[p.current_airport].cargo_prices
         THEN [applied |-> FALSE, room |-> room,
               resp |-> Err("Cargo type not available at this market")]
         ELSE IF c.cargo \notin DOMAIN cargo_types
         THEN [applied |-> FALSE, room |-> room, resp |-> Err("Invalid cargo type")]
         ELSE LET transaction_amount ==
                      markets[p.current_airport].cargo_prices[c.cargo] * c.quantity
                  loaded == [room EXCEPT !.players[c.player].player.cargo_inventory =
                                            add_cargo(@, c.cargo, c.quantity)]
              IN
              IF c.action = "Buy"
              THEN IF ~can_afford(p, transaction_amount)
                   THEN [applied |-> FALSE, room |-> loaded,
                         resp |-> Ok(FALSE, "Insufficient funds", NoId, 0)]
                   ELSE [applied |-> TRUE,
                         room |-> [loaded EXCEPT !.players[c.player].player =
                                        spend_money(@, transaction_amount)],
                         resp |-> Ok(TRUE, "Successfully bought", NoId, transaction_amount)]
              ELSE [applied |-> FALSE, room |-> room,
                    resp |-> Ok(FALSE, "Insufficient cargo to sell", NoId, 0)]

\* What player_trade does to the room under its guard: the response it
\* returns at once (applied FALSE), or the room after the purchase or sale
\* and the response it has ready (applied TRUE).
trade_outcome(room, c) ==
    IF c.player \notin DOMAIN room.players
    THEN [applied |-> FALSE, room |-> room, resp |-> Err("Player not found in room")]
    ELSE LET p == room.players[c.player].player
             markets == room.shared_state.markets
             cargo_types == room.shared_state.cargo_types
         IN
         IF p.current_airport \notin DOMAIN markets
         THEN [applied |-> FALSE, room |-> room,
               resp |-> Err("No market available at current location")]
         ELSE IF c.cargo \notin DOMAIN markets[p.current_airport].cargo_prices
         THEN [applied |-> FALSE, room |-> room,
               resp |-> Err("Cargo type not available at this market")]
         ELSE IF c.cargo \notin DOMAIN cargo_types
         THEN [applied |-> FALSE, room |-> room, resp |-> Err("Invalid cargo type")]
         ELSE LET cargo_price == markets[p.current_airport].cargo_prices[c.cargo]
                  amount32 == Mul32(cargo_price, c.quantity)
                  transaction_amount == Val32(amount32)
                  additional_weight ==
                      Mul32(cargo_types[c.cargo].weight_per_unit, c.quantity)
                  bought == [spend_money(p, transaction_amount) EXCEPT
                                !.cargo_inventory = add_cargo(@, c.cargo, c.quantity)]
                  sold == earn_money(
                            [p EXCEPT !.cargo_inventory =
                                        remove_cargo(@, c.cargo, c.quantity)],
                            transaction_amount)
              IN
              IF c.action = "Buy"
              THEN IF ~(Fits31(amount32) /\ can_afford(p, transaction_amount))
                   THEN [applied |-> FALSE, room |-> room,
                         resp |-> TradeFail("Insufficient funds")]
                   ELSE IF ~can_carry_more_weight(p, additional_weight, cargo_types)
                   THEN [applied |-> FALSE, room |-> room,
                         resp |-> TradeFail("Insufficient cargo capacity")]
                   ELSE [applied |-> TRUE,
                         room |-> [room EXCEPT
                            !.players[c.player].player = bought,
                            !.player_statistics =
                                IF c.player \in DOMAIN @
                                THEN [@ EXCEPT ![c.player] =
                                        record_cargo_purchase(@, transaction_amount)]
                                ELSE @],
                         resp |-> Ok(TRUE, "Successfully bought", NoId, transaction_amount)]
              ELSE IF p.cargo_inventory[c.cargo] < c.quantity
                   THEN [applied |-> FALSE, room |-> room,
                         resp |-> TradeFail("Insufficient cargo to sell")]
                   ELSE [applied |-> TRUE,
                         room |-> [room EXCEPT
                            !.players[c.player].player = sold,
                            !.player_statistics =
                                IF c.player \in DOMAIN @
                                THEN [@ EXCEPT ![c.player] =
                                        record_sale(@, c.cargo, transaction_amount)]
                                ELSE @],
                         resp |-> Ok(TRUE, "Successfully sold", NoId, transaction_amount)]

\* The guard taken at the top of player_trade is still alive when an applied
\* trade goes on to lock `rooms` again.
PlayerTradeApply(t, c) ==
    /\ Begin(t, c)
    /\ LockFree
    /\ IF Poisoned
       THEN Finish(t, LockErr) /\ UNCHANGED <<rooms, rooms_lock>>
       ELSE IF c.room \notin DOMAIN rooms
       THEN Finish(t, Err("Room not found")) /\ UNCHANGED <<rooms, rooms_lock>>
       ELSE LET out == trade_outcome(rooms[c.room], c)
            IN IF ~out.applied
               THEN /\ rooms' = [rooms EXCEPT ![c.room] = out.room]
                    /\ Finish(t, out.resp)
                    /\ UNCHANGED rooms_lock
               ELSE /\ rooms' = [rooms EXCEPT ![c.room] = out.room]
                    /\ Acquire(t)
                    /\ Goto(t, "relock",
                            Local(c.room, c.player, NoRoom, NoSession, out.resp))
    /\ UNCHANGED <<sessions, db_rooms, db_sessions, now, first_id, left_state>>
    /\ UNCHANGED <<game, posted, db_faulty, lone_player>>
    /\ Applied(t)

\* The u32 products of player_trade leave the 32 bits: cargo_price *
\* quantity, and for a purchase that can be paid weight_per_unit * quantity.
trade_overflows(room, c) ==
    /\ c.player \in DOMAIN room.players
    /\ LET p == room.players[c.player].player
           markets == room.shared_state.markets
           cargo_types == room.shared_state.cargo_types
       IN /\ p.current_airport \in DOMAIN markets
          /\ c.cargo \in DOMAIN markets[p.current_airport].cargo_prices
          /\ LET amount32 ==
                    Mul32(markets[p.current_airport].cargo_prices[c.cargo], c.quantity)
             IN \/ amount32.overflow
                \/ /\ c.cargo \in DOMAIN cargo_types
                   /\ c.action = "Buy"
                   /\ Fits31(amount32) /\ can_afford(p, Val32(amount32))
                   /\ Mul32(cargo_types[c.cargo].weight_per_unit, c.quantity).overflow

\* The build with overflow checks: player_trade panics at the product while
\* it holds the rooms guard, which poisons the mutex; the room is untouched.
PlayerTradePanics(t, c) ==
    /\ Begin(t, c)
    /\ LockFree /\ ~Poisoned
    /\ c.room \in DOMAIN rooms
    /\ trade_overflows(rooms[c.room], c)
    /\ pc' = [pc EXCEPT ![t] = "panicked"]
    /\ rooms_lock' = [holder |-> NoId, poisoned |-> TRUE]
    /\ UNCHANGED <<local, resp>>
    /\ UNCHANGED <<rooms, sessions, db_rooms, db_sessions, now, first_id, left_state>>
    /\ UNCHANGED <<game, posted, db_faulty, lone_player>>
    /\ Applied(t)

\* -------------------------------------------------------- player_buy_fuel
\* Variant: no capacity check; add_fuel clamps what does not fit.
fuel_outcome_clamps(room, c) ==
    IF c.player \notin DOMAIN room.players
    THEN [applied |-> FALSE, room |-> room, resp |-> Err("Player not found in room")]
    ELSE LET p == room.players[c.player].player
             markets == room.shared_state.markets
         IN
         IF p.current_airport \notin DOMAIN markets
         THEN [applied |-> FALSE, room |-> room,
               resp |-> Err("No market available at current location")]
         ELSE LET fuel_cost == markets[p.current_airport].fuel_price * c.quantity
              IN
              IF ~can_afford(p, fuel_cost)
              THEN [applied |-> FALSE, room |-> room,
                    resp |-> Ok(FALSE, "Insufficient funds for fuel purchase", NoId, 0)]
              ELSE [applied |-> TRUE,
                    room |-> [room EXCEPT !.players[c.player].player =
                                add_fuel(spend_money(p, fuel_cost), c.quantity)],
                    resp |-> Ok(TRUE, "Purchased", NoId, fuel_cost)]

fuel_outcome(room, c) ==
    IF c.player \notin DOMAIN room.players
    THEN [applied |-> FALSE, room |-> room, resp |-> Err("Player not found in room")]
    ELSE LET p == room.players[c.player].player
             markets == room.shared_state.markets
         IN
         IF p.current_airport \notin DOMAIN markets
         THEN [applied |-> FALSE, room |-> room,
               resp |-> Err("No market available at current location")]
         ELSE LET fuel_cost == markets[p.current_airport].fuel_price * c.quantity
                  space_available == p.max_fuel - p.fuel
                  filled == add_fuel(spend_money(p, fuel_cost), c.quantity)
              IN
              IF ~can_afford(p, fuel_cost)
              THEN [applied |-> FALSE, room |-> room,
                    resp |-> Ok(FALSE, "Insufficient funds for fuel purchase", NoId, 0)]
              ELSE IF c.quantity > space_available
              THEN [applied |-> FALSE, room |-> room,
                    resp |-> Ok(FALSE,
                        "Fuel tank can only hold " \o ToString(space_available)
                            \o " more units", NoId, 0)]
              ELSE [applied |-> TRUE,
                    room |-> [room EXCEPT
                        !.players[c.player].player = filled,
                        !.player_statistics =
                            IF c.player \in DOMAIN @
                            THEN [@ EXCEPT ![c.player] =
                                    record_fuel_purchase(@, c.quantity, fuel_cost)]
                            ELSE @],
                    resp |-> Ok(TRUE, "Purchased", NoId, fuel_cost)]

PlayerBuyFuelApply(t, c) ==
    /\ Begin(t, c)
    /\ LockFree
    /\ IF Poisoned
       THEN Finish(t, LockErr) /\ UNCHANGED <<rooms, rooms_lock>>
       ELSE IF c.room \notin DOMAIN rooms
       THEN Finish(t, Err("Room not found")) /\ UNCHANGED <<rooms, rooms_lock>>
       ELSE LET out == fuel_outcome(rooms[c.room], c)
            IN IF ~out.applied
               THEN /\ rooms' = [rooms EXCEPT ![c.room] = out.room]
                    /\ Finish(t, out.resp)
                    /\ UNCHANGED rooms_lock
               ELSE /\ rooms' = [rooms EXCEPT ![c.room] = out.room]
                    /\ Acquire(t)
                    /\ Goto(t, "relock",
                            Local(c.room, c.player, NoRoom, NoSession, out.resp))
    /\ UNCHANGED <<sessions, db_rooms, db_sessions, now, first_id, left_state>>
    /\ UNCHANGED <<game, posted, db_faulty, lone_player>>
    /\ Applied(t)

\* `self.rooms.lock()` by the thread that holds the guard.  std::sync::Mutex
\* leaves this unspecified: the call never returns, it blocks for ever ...
RelockBlocks(t) ==
    /\ pc[t] = "relock"
    /\ rooms_lock.holder = t
    /\ pc' = [pc EXCEPT ![t] = "deadlocked"]
    /\ UNCHANGED <<rooms, sessions, db_rooms, db_sessions, rooms_lock, now, call,
                   local, resp, first_id, left_state>>
    /\ UNCHANGED <<game, posted, db_faulty, lone_player>>
    /\ Applying(t)

\* ... or it panics: unwinding drops the guard and poisons the mutex.
RelockPanics(t) ==
    /\ pc[t] = "relock"
    /\ rooms_lock.holder = t
    /\ pc' = [pc EXCEPT ![t] = "panicked"]
    /\ rooms_lock' = [holder |-> NoId, poisoned |-> TRUE]
    /\ local' = [local EXCEPT ![t] = NoLocal]
    /\ UNCHANGED <<rooms, sessions, db_rooms, db_sessions, now, call, resp,
                   first_id, left_state>>
    /\ UNCHANGED <<game, posted, db_faulty, lone_player>>
    /\ Applying(t)

\* ----------------------------------------------------------- post_message
\* Uuid::new_v4() for a message: the ordinal of the post in its room.
FreshMessageId(room_id) == Len(posted[room_id]) + 1

\* The post under the rooms lock; an accepted post keeps the guard alive
\* over save_room(room), a refused one is answered with success = false.
\* chrono::Utc::now() reads nanoseconds: an accepted post carries a later
\* instant than every post before it.
PostMessagePost(t, c) ==
    /\ Begin(t, c)
    /\ LockFree
    /\ IF Poisoned
       THEN Finish(t, LockErr) /\ UNCHANGED <<rooms, rooms_lock, now, posted>>
       ELSE IF c.room \notin DOMAIN rooms
       THEN Finish(t, Err("Room not found")) /\ UNCHANGED <<rooms, rooms_lock, now, posted>>
       ELSE IF c.player \notin DOMAIN rooms[c.room].players
       THEN Finish(t, Err("Player not in this room"))
            /\ UNCHANGED <<rooms, rooms_lock, now, posted>>
       ELSE LET ps == rooms[c.room].players[c.player]
                res == board_post(rooms[c.room].message_board, FreshMessageId(c.room),
                                  c.player, ps.player_name, c.quantity,
                                  ps.player.current_airport, now + 1)
            IN IF ~res.ok
               THEN /\ rooms' = [rooms EXCEPT ![c.room].message_board = res.board]
                    /\ Finish(t, Ok(FALSE, res.err, NoId, 0))
                    /\ UNCHANGED <<rooms_lock, now, posted>>
               ELSE /\ Len(posted[c.room]) < MaxPosts
                    /\ now < MaxTime
                    /\ now' = now + 1
                    /\ rooms' = [rooms EXCEPT ![c.room].message_board = res.board]
                    /\ posted' = [posted EXCEPT ![c.room] =
                                    Append(@, res.board.messages[Len(res.board.messages)])]
                    /\ Acquire(t)
                    /\ Goto(t, "pm_save_room",
                            Local(c.room, c.player, NoRoom, NoSession,
                                  Ok(TRUE, "Message posted successfully", NoId,
                                     FreshMessageId(c.room))))
    /\ UNCHANGED <<sessions, db_rooms, db_sessions, first_id, left_state, game, lone_player,
                   db_faulty>>
    /\ Applied(t)

PostMessageSaveRoom(t) ==
    /\ At(t, "pm_save_room", "post_message")
    /\ \E ok \in DbOutcomes :
         db_rooms' = db_save(db_rooms, call[t].room, room_row(rooms[call[t].room]), ok)
    /\ Release
    /\ Finish(t, local[t].resp)
    /\ UNCHANGED <<rooms, sessions, db_sessions, now, call, first_id, left_state>>
    /\ UNCHANGED <<game, posted, db_faulty, lone_player>>
    /\ Applying(t)

\* ------------------------------------------------------------ read-only ops
\* Some(20): the most messages one read returns.
ReadLimit == 20

\* items: the messages returned; value: total_count.
GetMessages(t, c) ==
    /\ Begin(t, c)
    /\ LockFree
    /\ IF Poisoned THEN Finish(t, LockErr)
       ELSE IF c.room \notin DOMAIN rooms THEN Finish(t, Err("Room not found"))
       ELSE IF c.player \notin DOMAIN rooms[c.room].players
       THEN Finish(t, Err("Player not in this room"))
       ELSE LET current_airport == rooms[c.room].players[c.player].player.current_airport
            IN Finish(t, OkItems(
                    board_get_messages(rooms[c.room].message_board, current_airport,
                                       ReadLimit),
                    message_count(rooms[c.room].message_board, current_airport)))
    /\ UNCHANGED <<rooms, sessions, db_rooms, db_sessions, rooms_lock, now,
                   first_id, left_state>>
    /\ UNCHANGED <<game, posted, db_faulty, lone_player>>
    /\ Applied(t)

\* The ids of S as a list (the order a HashMap yields is not defined; the
\* list is given by rising id).
RECURSIVE InIdOrder(_)
InIdOrder(S) == IF S = {} THEN << >> ELSE <<MinOf(S)>> \o InIdOrder(S \ {MinOf(S)})

RoomInfo(room) ==
    [id              |-> room.id,
     current_players |-> OnlineCount(room),
     max_players     |-> room.max_players,
     game_status     |-> room.game_status,
     is_joinable     |-> is_joinable(room)]

\* items: one RoomInfo per room of the registry; value: how many.
ListRooms(t, c) ==
    /\ Begin(t, c)
    /\ LockFree
    /\ IF Poisoned THEN Finish(t, LockErr)
       ELSE LET ids == InIdOrder(DOMAIN rooms)
            IN Finish(t, OkItems([i \in 1 .. Len(ids) |-> RoomInfo(rooms[ids[i]])],
                                 Len(ids)))
    /\ UNCHANGED <<rooms, sessions, db_rooms, db_sessions, rooms_lock, now,
                   first_id, left_state>>
    /\ UNCHANGED <<game, posted, db_faulty, lone_player>>
    /\ Applied(t)

\* The PlayerSessionInfo entries find_player_sessions builds: one for each
\* database row of that name that carries a room.
PlayerSessionInfos(table, player_name) ==
    {[player_id |-> s.player_id, player_name |-> s.player_name,
      room_id |-> s.game_room_id] :
        s \in {x \in find_sessions_by_player_name(table, player_name) :
                    x.game_room_id # NoId}}

\* The database rows of that name that still carry a room (value: how many).
FindPlayerSessions(t, c) ==
    /\ Begin(t, c)
    /\ LockFree
    /\ IF Poisoned THEN Finish(t, LockErr)
       ELSE \E ok \in DbOutcomes :
            IF ~ok THEN Finish(t, Err("Database error"))
            ELSE Finish(t, OkItems(PlayerSessionInfos(db_sessions, c.name),
                                   Cardinality(PlayerSessionInfos(db_sessions, c.name))))
    /\ UNCHANGED <<rooms, sessions, db_rooms, db_sessions, rooms_lock, now,
                   first_id, left_state>>
    /\ UNCHANGED <<game, posted, db_faulty, lone_player>>
    /\ Applied(t)

\* ---------------------------------------------------------------- restart
\* load_persisted_state: what a service started on this database holds.
load_persisted_state ==
    [rooms |-> load_all(db_rooms), sessions |-> load_all(db_sessions)]

\* The process stops between two requests and a new service is built on
\* the same database (new_with_db_path): new mutexes, the saved rows.
Restart ==
    /\ \A t \in Threads : pc[t] = "idle"
    /\ rooms' = load_persisted_state.rooms
    /\ sessions' = load_persisted_state.sessions
    /\ rooms_lock' = [holder |-> NoId, poisoned |-> FALSE]
    /\ UNCHANGED <<db_rooms, db_sessions, now, pc, call, local, resp,
                   first_id, left_state>>
    /\ UNCHANGED <<game, posted, db_faulty, lone_player>>
    /\ applied' = [t \in Threads |-> FALSE]

\* ----------------------------------------------- Player, called directly
\* A Player value built by Player::new, its fuel set by the caller, and then
\* driven through spend_money, consume_fuel and add_fuel (quantity: the
\* starting money, the cost or the amount).
PlayerMoneys == {0, 2500, 5000}
PlayerCosts == {0, 2500, 5000, 5001}
PlayerMaxFuels == {50, 200}
PlayerFuels == {0, 20, 50}
ConsumeAmounts == {0, 20, 30, 200}
U32Max == [overflow |-> FALSE, hi |-> U16 - 1, lo |-> U16 - 1]
AddAmounts == {W32(0), W32(30), W32(200), U32Max}

PlayerNewCalls ==
    {Call("player_new", NoId, NoId, "", "JFK", "", m, "") : m \in PlayerMoneys}

SpendCalls ==
    {Call("spend_money", NoId, NoId, "", "", "", q, "") : q \in PlayerCosts}

ConsumeCalls ==
    {Call("consume_fuel", NoId, NoId, "", "", "", q, "") : q \in ConsumeAmounts}

AddFuelCalls ==
    {Call("add_fuel", NoId, NoId, "", "", "", q, "") : q \in AddAmounts}

PlayerMake(t, c) ==
    /\ Begin(t, c)
    /\ lone_player = NoPlayer
    /\ \E max_fuel \in PlayerMaxFuels, fuel \in PlayerFuels :
         lone_player' = [PlayerNew(c.quantity, c.airport, max_fuel, MaxCargoWeight,
                                   FuelEfficiency) EXCEPT !.fuel = fuel]
    /\ Finish(t, Ok(TRUE, "", NoId, 0))
    /\ UNCHANGED <<rooms, sessions, db_rooms, db_sessions, rooms_lock, now,
                   first_id, left_state, game, posted, db_faulty>>
    /\ Applied(t)

PlayerSpendMoney(t, c) ==
    /\ Begin(t, c)
    /\ lone_player # NoPlayer
    /\ lone_player' = spend_money(lone_player, c.quantity)
    /\ Finish(t, Ok(can_afford(lone_player, c.quantity), "", NoId, 0))
    /\ UNCHANGED <<rooms, sessions, db_rooms, db_sessions, rooms_lock, now,
                   first_id, left_state, game, posted, db_faulty>>
    /\ Applied(t)

PlayerConsumeFuel(t, c) ==
    /\ Begin(t, c)
    /\ lone_player # NoPlayer
    /\ lone_player' = consume_fuel(lone_player, c.quantity)
    /\ Finish(t, Ok(lone_player.fuel >= c.quantity, "", NoId, 0))
    /\ UNCHANGED <<rooms, sessions, db_rooms, db_sessions, rooms_lock, now,
                   first_id, left_state, game, posted, db_faulty>>
    /\ Applied(t)

\* add_fuel in wrapping arithmetic (the build without overflow checks).
PlayerAddFuel(t, c) ==
    /\ Begin(t, c)
    /\ lone_player # NoPlayer
    /\ lone_player' = add_fuel_u32(lone_player, c.quantity).p
    /\ Finish(t, Ok(TRUE, "", NoId, 0))
    /\ UNCHANGED <<rooms, sessions, db_rooms, db_sessions, rooms_lock, now,
                   first_id, left_state, game, posted, db_faulty>>
    /\ Applied(t)

\* add_fuel in the build with overflow checks: self.fuel + amount panics.
PlayerAddFuelPanics(t, c) ==
    /\ Begin(t, c)
    /\ lone_player # NoPlayer
    /\ add_fuel_u32(lone_player, c.quantity).overflow
    /\ pc' = [pc EXCEPT ![t] = "panicked"]
    /\ UNCHANGED <<local, resp, lone_player>>
    /\ UNCHANGED <<rooms, sessions, db_rooms, db_sessions, rooms_lock, now,
                   first_id, left_state, game, posted, db_faulty>>
    /\ Applied(t)

\* --------------------------------------------- Database, called directly
\* save_room, save_session, load_all_rooms and load_all_sessions applied to
\* the tables by a caller that supplies the value, and a row that another
\* writer (a different version of the program, a tool) left in the file the
\* database was opened on.
SaveRoomCalls ==
    {Call("save_room", r, NoId, n, "", "", 0, "") : r \in PairIds, n \in PlayerNames}

SaveSessionCalls ==
    {Call("save_session", r, p, n, "", "", 0, "") :
        r \in PairIds \cup {NoId}, p \in PlayerIds, n \in PlayerNames}

LoadCalls(op) == {Call(op, NoId, NoId, "", "", "", 0, "")}

\* The room and the session such a request hands over.
RoomOf(c) ==
    GameRoomNew(c.room, "room", MinOf(PlayerIds), c.name, DefaultMaxPlayers,
                get_default_airports, get_default_cargo_types, now)

SessionOf(c) == PlayerSessionNew(c.player, c.name, c.room, now)

DbSaveRoom(t, c) ==
    /\ Begin(t, c)
    /\ \E ok \in DbOutcomes :
         /\ db_rooms' = db_save(db_rooms, RoomOf(c).id, room_row(RoomOf(c)), ok)
         /\ Finish(t, IF ok THEN Ok(TRUE, "", NoId, 0) ELSE Err("Database error"))
    /\ UNCHANGED <<rooms, sessions, db_sessions, rooms_lock, now,
                   first_id, left_state>>
    /\ UNCHANGED <<game, posted, db_faulty, lone_player>>
    /\ Applied(t)

DbSaveSession(t, c) ==
    /\ Begin(t, c)
    /\ \E ok \in DbOutcomes :
         /\ db_sessions' = db_save(db_sessions, SessionOf(c).player_id,
                                   session_row(SessionOf(c)), ok)
         /\ Finish(t, IF ok THEN Ok(TRUE, "", NoId, 0) ELSE Err("Database error"))
    /\ UNCHANGED <<rooms, sessions, db_rooms, rooms_lock, now,
                   first_id, left_state>>
    /\ UNCHANGED <<game, posted, db_faulty, lone_player>>
    /\ Applied(t)

DbLoadAllRooms(t, c) ==
    /\ Begin(t, c)
    /\ Finish(t, OkItems(load_all(db_rooms), 0))
    /\ UNCHANGED <<rooms, sessions, db_rooms, db_sessions, rooms_lock, now,
                   first_id, left_state>>
    /\ UNCHANGED <<game, posted, db_faulty, lone_player>>
    /\ Applied(t)

DbLoadAllSessions(t, c) ==
    /\ Begin(t, c)
    /\ Finish(t, OkItems(load_all(db_sessions), 0))
    /\ UNCHANGED <<rooms, sessions, db_rooms, db_sessions, rooms_lock, now,
                   first_id, left_state>>
    /\ UNCHANGED <<game, posted, db_faulty, lone_player>>
    /\ Applied(t)

\* Another writer stores a row whose data is not the JSON of a room.
ForeignRoomRow ==
    /\ \A t \in Threads : pc[t] = "idle"
    /\ \E k \in PairIds : db_rooms' = (k :> [data |-> Unparsable]) @@ db_rooms
    /\ UNCHANGED <<rooms, sessions, db_sessions, rooms_lock, now,
                   pc, call, local, resp, first_id, left_state>>
    /\ UNCHANGED <<game, posted, db_faulty, applied, lone_player>>

\* Another writer stores a row whose data is not the JSON of a session.
ForeignSessionRow ==
    /\ \A t \in Threads : pc[t] = "idle"
    /\ \E k \in PlayerIds, n \in PlayerNames :
         db_sessions' = (k :> [player_name |-> n, data |-> Unparsable]) @@ db_sessions
    /\ UNCHANGED <<rooms, sessions, db_rooms, rooms_lock, now,
                   pc, call, local, resp, first_id, left_state>>
    /\ UNCHANGED <<game, posted, db_faulty, applied, lone_player>>

\* --------------------------------------------- GameRoom, called directly
\* The methods of GameRoom applied to a room of the registry by a caller
\* that supplies the player id itself (quantity: max_players).
RoomMaxPlayers == {1, 2}

RoomNewCalls ==
    {Call("new", NoId, p, n, "", "", m, "") :
        p \in PlayerIds, n \in HostNames, m \in RoomMaxPlayers}

AddPlayerCalls ==
    {Call("add_player", r, p, n, a, "", 0, "") :
        r \in RoomIds, p \in PlayerIds, n \in PlayerNames, a \in StartAirports}

RoomNew(t, c) ==
    /\ Begin(t, c)
    /\ rooms = EmptyMap
    /\ rooms' = (FreshRoomId :>
                    GameRoomNew(FreshRoomId, "room", c.player, c.name, c.quantity,
                                get_default_airports, get_default_cargo_types, now))
                @@ rooms
    /\ first_id' = (<<FreshRoomId, c.name>> :> c.player) @@ first_id
    /\ Finish(t, Ok(TRUE, "", c.player, FreshRoomId))
    /\ UNCHANGED <<sessions, db_rooms, db_sessions, rooms_lock, now, left_state>>
    /\ UNCHANGED <<game, posted, db_faulty, lone_player>>
    /\ Applied(t)

RoomAddPlayer(t, c) ==
    /\ Begin(t, c)
    /\ c.room \in DOMAIN rooms
    /\ \E first \in FirstMatches(rooms[c.room], c.name) :
        LET res == add_player(rooms[c.room], c.player, c.name, c.airport, now, first)
        IN /\ rooms' = [rooms EXCEPT ![c.room] = res.room]
           /\ first_id' = IF res.ok THEN first_id @@ (<<c.room, c.name>> :> res.id)
                          ELSE first_id
           /\ Finish(t, IF res.ok THEN Ok(TRUE, "", res.id, 0) ELSE Err(res.err))
    /\ UNCHANGED <<sessions, db_rooms, db_sessions, rooms_lock, now, left_state>>
    /\ UNCHANGED <<game, posted, db_faulty, lone_player>>
    /\ Applied(t)

RoomMarkOffline(t, c) ==
    /\ Begin(t, c)
    /\ c.room \in DOMAIN rooms
    /\ LET res == mark_player_offline(rooms[c.room], c.player, now)
       IN /\ rooms' = [rooms EXCEPT ![c.room] = res.room]
          /\ left_state' = IF res.ok
                           THEN (<<c.room, c.player>> :>
                                    [player |-> rooms[c.room].players[c.player].player,
                                     joined_at |-> rooms[c.room].players[c.player].joined_at])
                                @@ left_state
                           ELSE left_state
          /\ Finish(t, IF res.ok THEN Ok(TRUE, "", c.player, 0)
                       ELSE Err("Player not in room"))
    /\ UNCHANGED <<sessions, db_rooms, db_sessions, rooms_lock, now, first_id>>
    /\ UNCHANGED <<game, posted, db_faulty, lone_player>>
    /\ Applied(t)

RoomUpdateActivity(t, c) ==
    /\ Begin(t, c)
    /\ c.room \in DOMAIN rooms
    /\ rooms' = [rooms EXCEPT ![c.room] = update_player_activity(@, c.player, now)]
    /\ Finish(t, Ok(TRUE, "", c.player, 0))
    /\ UNCHANGED <<sessions, db_rooms, db_sessions, rooms_lock, now, first_id,
                   left_state>>
    /\ UNCHANGED <<game, posted, db_faulty, lone_player>>
    /\ Applied(t)

RoomRemovePlayer(t, c) ==
    /\ Begin(t, c)
    /\ c.room \in DOMAIN rooms
    /\ \E next_key \in NextKeys(rooms[c.room], c.player) :
        LET res == remove_player(rooms[c.room], c.player, next_key)
        IN /\ rooms' = [rooms EXCEPT ![c.room] = res.room]
           /\ Finish(t, IF res.ok THEN Ok(TRUE, "", c.player, 0)
                        ELSE Err("Player not in room"))
    /\ UNCHANGED <<sessions, db_rooms, db_sessions, rooms_lock, now, first_id,
                   left_state>>
    /\ UNCHANGED <<game, posted, db_faulty, lone_player>>
    /\ Applied(t)

\* ============================================================ GameService
\* The single-player service (src/src/api/service.rs): game sessions behind
\* the `sessions` mutex, their statistics behind the `statistics` mutex.
\* Every operation takes `sessions` first and `statistics` inside it, so an
\* operation is one step.
GameIds == 1 .. MaxGames

\* MarketSystem draws each price as the base price times random factors; the
\* draws kept are those open to every cargo at every airport (94% .. 103%).
PricePercents == {96, 100}

generate_market_prices(cargo_types, pct) ==
    [c \in DOMAIN cargo_types |-> (cargo_types[c].base_price * pct) \div 100]

generate_fuel_price(a, pct) ==
    (AirportFuel(a).base_fuel_price * AirportFuel(a).fuel_modifier * pct) \div 1000

initialize_all_markets(airports, cargo_types, pct) ==
    [a \in DOMAIN airports |->
        [airport_id   |-> a,
         fuel_price   |-> generate_fuel_price(a, pct),
         cargo_prices |-> generate_market_prices(cargo_types, pct)]]

\* GameState::new followed by create_game's replacement of the player.
GameStateNew(starting_money, starting_airport, pct) ==
    [player      |-> PlayerNew(starting_money, starting_airport, MaxFuel,
                               MaxCargoWeight, FuelEfficiency),
     airports    |-> get_default_airports,
     cargo_types |-> get_default_cargo_types,
     markets     |-> initialize_all_markets(get_default_airports,
                                            get_default_cargo_types, pct),
     turn_number |-> 1]

FreshGameId ==
    IF GameIds \ DOMAIN game.sessions = {} THEN NoId
    ELSE MinOf(GameIds \ DOMAIN game.sessions)

StartingMoneys == {NoMax, 100}
GameDestinations == {"ORD", "LAX", "ZZZ"}
GameTradeRequests ==
    {<<"industrial", 3, "Buy">>, <<"industrial", 858993460, "Buy">>,
     <<"industrial", 3, "Sell">>, <<"luxury", 6, "Buy">>, <<"gold", 3, "Buy">>}
GameFuelQuantities == {20, 80, 200, 858993460}

\* room carries the session id; quantity the starting money (create_game).
CreateGameCalls ==
    {Call("create_game", NoId, NoId, "P", a, "", m, "") :
        a \in StartAirports, m \in StartingMoneys}

GameCalls(op) == {Call(op, g, NoId, "", "", "", 0, "") : g \in GameIds}

GameTravelCalls ==
    {Call("travel", g, NoId, "", d, "", 0, "") : g \in GameIds, d \in GameDestinations}

GameTradeCalls ==
    {Call("trade", g, NoId, "", "", q[1], q[2], q[3]) :
        g \in GameIds, q \in GameTradeRequests}

GameFuelCalls ==
    {Call("buy_fuel", g, NoId, "", "", "", q, "") :
        g \in GameIds, q \in GameFuelQuantities}

SessionLockErr == Err("Failed to acquire session lock")

\* build_game_state_response: the lookups that can fail.
build_game_state_response(gs) ==
    IF gs.player.current_airport \notin DOMAIN gs.airports
    THEN Err("Current airport not found")
    ELSE IF gs.player.current_airport \notin DOMAIN gs.markets
    THEN Err("Current market not found")
    ELSE Ok(TRUE, "", NoId, gs.turn_number)

\* The outcome of an operation on a session: the session and its statistics
\* afterwards and the response.
GameOutcome(gs, st, r) == [gs |-> gs, st |-> st, resp |-> r]

\* GameService::travel on the session gs with statistics st.
game_travel(gs, st, c) ==
    IF c.airport \notin DOMAIN gs.airports
    THEN GameOutcome(gs, st, Err("Destination airport not found"))
    ELSE IF gs.player.current_airport \notin DOMAIN gs.airports
    THEN GameOutcome(gs, st, Err("Current airport not found"))
    ELSE LET p == gs.player
             distance == distance_to(p.current_airport, c.airport)
             fuel_required == fuel_needed_for_distance(p, distance)
             moved == [consume_fuel(p, fuel_required) EXCEPT !.current_airport = c.airport]
         IN IF ~can_travel_distance(p, distance)
            THEN GameOutcome(gs, st,
                    Ok(FALSE, "Insufficient fuel. Need " \o ToString(fuel_required)
                                \o " units, have " \o ToString(p.fuel), NoId, 0))
            ELSE GameOutcome([gs EXCEPT !.player = moved, !.turn_number = @ + 1],
                             record_travel(st, c.airport, distance),
                             Ok(TRUE, "Traveled to " \o gs.airports[c.airport].name,
                                NoId, fuel_required))

\* GameService::trade with the arithmetic of a build that wraps on overflow.
game_trade(gs, st, c) ==
    LET p == gs.player IN
    IF p.current_airport \notin DOMAIN gs.markets
    THEN GameOutcome(gs, st, Err("No market available at current location"))
    ELSE IF c.cargo \notin DOMAIN gs.markets[p.current_airport].cargo_prices
    THEN GameOutcome(gs, st, Err("Cargo type not available at this market"))
    ELSE LET cargo_price == gs.markets[p.current_airport].cargo_prices[c.cargo]
             amount32 == Mul32(cargo_price, c.quantity)
             transaction_amount == Val32(amount32)
         IN
         IF c.action = "Buy"
         THEN IF ~(Fits31(amount32) /\ can_afford(p, transaction_amount))
              THEN GameOutcome(gs, st, TradeFail("Insufficient funds"))
              ELSE IF c.cargo \notin DOMAIN gs.cargo_types
              THEN GameOutcome(gs, st, Err("Invalid cargo type"))
              ELSE IF ~can_carry_more_weight(p,
                          Mul32(gs.cargo_types[c.cargo].weight_per_unit, c.quantity),
                          gs.cargo_types)
              THEN GameOutcome(gs, st, TradeFail("Insufficient cargo capacity"))
              ELSE GameOutcome(
                      [gs EXCEPT !.player =
                          [spend_money(p, transaction_amount) EXCEPT
                              !.cargo_inventory = add_cargo(@, c.cargo, c.quantity)]],
                      record_cargo_purchase(st, transaction_amount),
                      Ok(TRUE, "Successfully Buyed", NoId, transaction_amount))
         ELSE IF p.cargo_inventory[c.cargo] < c.quantity
              THEN GameOutcome(gs, st, TradeFail("Insufficient cargo to sell"))
              ELSE GameOutcome(
                      [gs EXCEPT !.player =
                          earn_money([p EXCEPT !.cargo_inventory =
                                          remove_cargo(@, c.cargo, c.quantity)],
                                     transaction_amount)],
                      record_sale(st, c.cargo, transaction_amount),
                      Ok(TRUE, "Successfully Selled", NoId, transaction_amount))

\* A multiplication or addition on the path of this trade leaves the 32
\* bits: the build with overflow checks panics there.
game_trade_overflows(gs, c) ==
    LET p == gs.player IN
    /\ p.current_airport \in DOMAIN gs.markets
    /\ c.cargo \in DOMAIN gs.markets[p.current_airport].cargo_prices
    /\ LET amount32 == Mul32(gs.markets[p.current_airport].cargo_prices[c.cargo],
                              c.quantity)
       IN \/ amount32.overflow
          \/ /\ c.action = "Buy"
             /\ Leq32(amount32, p.money)
             /\ c.cargo \in DOMAIN gs.cargo_types
             /\ Add32(total_weight(p.cargo_inventory, gs.cargo_types),
                      Mul32(gs.cargo_types[c.cargo].weight_per_unit, c.quantity)).overflow

\* GameService::buy_fuel, wrapping.
game_buy_fuel(gs, st, c) ==
    LET p == gs.player IN
    IF p.current_airport \notin DOMAIN gs.markets
    THEN GameOutcome(gs, st, Err("No market available at current location"))
    ELSE LET cost32 == Mul32(gs.markets[p.current_airport].fuel_price, c.quantity)
             fuel_cost == Val32(cost32)
             space_available == p.max_fuel - p.fuel
         IN
         IF ~(Fits31(cost32) /\ can_afford(p, fuel_cost))
         THEN GameOutcome(gs, st,
                Ok(FALSE, "Insufficient funds for fuel purchase", NoId, 0))
         ELSE IF c.quantity > space_available
         THEN GameOutcome(gs, st,
                Ok(FALSE, "Fuel tank can only hold " \o ToString(space_available)
                            \o " more units", NoId, 0))
         ELSE GameOutcome([gs EXCEPT !.player =
                                add_fuel(spend_money(p, fuel_cost), c.quantity)],
                          record_fuel_purchase(st, c.quantity, fuel_cost),
                          Ok(TRUE, "Purchased", NoId, fuel_cost))

game_buy_fuel_overflows(gs, c) ==
    /\ gs.player.current_airport \in DOMAIN gs.markets
    /\ Mul32(gs.markets[gs.player.current_airport].fuel_price, c.quantity).overflow

\* The session's statistics, when the statistics map holds them.
StatsOf(g) == IF g \in DOMAIN game.statistics THEN game.statistics[g] ELSE GameStatisticsNew

\* Variant: the outcome is stored under every session id.
GameAfterAll(g, out) ==
    [game EXCEPT !.sessions = [x \in DOMAIN @ |-> out.gs],
                 !.statistics = IF g \in DOMAIN @ THEN [@ EXCEPT ![g] = out.st] ELSE @]

\* The service after an operation on session g came out as `out`.
GameAfter(g, out) ==
    [game EXCEPT !.sessions[g] = out.gs,
                 !.statistics = IF g \in DOMAIN @ THEN [@ EXCEPT ![g] = out.st] ELSE @]

MultiplayerUnchanged ==
    UNCHANGED <<rooms, sessions, db_rooms, db_sessions, rooms_lock, now,
                first_id, left_state, posted, db_faulty, applied, lone_player>>

\* create_game: the response is built before the session is stored.
CreateGameIn(t, c, ids) ==
    /\ Begin(t, c)
    /\ \E pct \in PricePercents :
        LET session_id == FreshIn(ids, DOMAIN game.sessions)
            gs == GameStateNew(IF c.quantity = NoMax THEN StartingMoney ELSE c.quantity,
                               IF c.airport = NoAirport THEN "JFK" ELSE c.airport, pct)
            built == build_game_state_response(gs)
        IN IF game.poisoned
           THEN Finish(t, SessionLockErr) /\ UNCHANGED game
           ELSE IF built.kind = "err"
           THEN Finish(t, built) /\ UNCHANGED game
           ELSE /\ session_id # NoId
                /\ game' = [game EXCEPT
                                !.sessions = (session_id :> gs) @@ @,
                                !.statistics = (session_id :> GameStatisticsNew) @@ @]
                /\ Finish(t, Ok(TRUE, "", NoId, session_id))
    /\ MultiplayerUnchanged

CreateGame(t, c) == CreateGameIn(t, c, GameIds)

GetGameState(t, c) ==
    /\ Begin(t, c)
    /\ IF game.poisoned THEN Finish(t, SessionLockErr)
       ELSE IF c.room \notin DOMAIN game.sessions
       THEN Finish(t, Err("Game session not found"))
       ELSE Finish(t, build_game_state_response(game.sessions[c.room]))
    /\ UNCHANGED game
    /\ MultiplayerUnchanged

GameTravel(t, c) ==
    /\ Begin(t, c)
    /\ IF game.poisoned
       THEN Finish(t, SessionLockErr) /\ UNCHANGED game
       ELSE IF c.room \notin DOMAIN game.sessions
       THEN Finish(t, Err("Game session not found")) /\ UNCHANGED game
       ELSE LET out == game_travel(game.sessions[c.room], StatsOf(c.room), c)
            IN /\ out.resp.success => game.sessions[c.room].turn_number < MaxTurn
               /\ game' = GameAfter(c.room, out)
               /\ Finish(t, out.resp)
    /\ MultiplayerUnchanged

\* What a purchase would leave in the hold fits the model's numbers (below 2^31).
TradeRepresentable(gs, c) ==
    (c.action = "Buy" /\ c.cargo \in DOMAIN gs.player.cargo_inventory)
        => Fits31(Add32(W32(gs.player.cargo_inventory[c.cargo]), W32(c.quantity)))

GameTrade(t, c) ==
    /\ Begin(t, c)
    /\ IF game.poisoned
       THEN Finish(t, SessionLockErr) /\ UNCHANGED game
       ELSE IF c.room \notin DOMAIN game.sessions
       THEN Finish(t, Err("Game session not found")) /\ UNCHANGED game
       ELSE /\ TradeRepresentable(game.sessions[c.room], c)
            /\ LET out == game_trade(game.sessions[c.room], StatsOf(c.room), c)
               IN /\ out.resp.success => StatsOf(c.room).cargo_trades < MaxTrades
                  /\ game' = GameAfter(c.room, out)
                  /\ Finish(t, out.resp)
    /\ MultiplayerUnchanged

GameBuyFuel(t, c) ==
    /\ Begin(t, c)
    /\ IF game.poisoned
       THEN Finish(t, SessionLockErr) /\ UNCHANGED game
       ELSE IF c.room \notin DOMAIN game.sessions
       THEN Finish(t, Err("Game session not found")) /\ UNCHANGED game
       ELSE LET out == game_buy_fuel(game.sessions[c.room], StatsOf(c.room), c)
            IN /\ game' = GameAfter(c.room, out)
               /\ Finish(t, out.resp)
    /\ MultiplayerUnchanged

\* The build with overflow checks: the operation panics at the arithmetic
\* while it holds the sessions guard, which poisons the mutex.
GameArithmeticPanics(t, c) ==
    /\ Begin(t, c)
    /\ ~game.poisoned
    /\ c.room \in DOMAIN game.sessions
    /\ \/ c.op = "trade" /\ game_trade_overflows(game.sessions[c.room], c)
       \/ c.op = "buy_fuel" /\ game_buy_fuel_overflows(game.sessions[c.room], c)
    /\ pc' = [pc EXCEPT ![t] = "panicked"]
    /\ game' = [game EXCEPT !.poisoned = TRUE]
    /\ UNCHANGED <<local, resp>>
    /\ MultiplayerUnchanged

\* ------------------------------------------------------------------- Next
CreateStep(t, calls) ==
    \/ \E c \in calls : CreateRoomInsert(t, c)
    \/ CreateRoomSessions(t)
    \/ CreateRoomSaveRoom(t)
    \/ CreateRoomSaveSession(t)

JoinStep(t) ==
    \/ \E c \in JoinCalls : JoinRoomAdd(t, c)
    \/ JoinRoomSessions(t)
    \/ JoinRoomSaveSession(t)

LeaveStep(t, calls) ==
    \/ \E c \in calls : LeaveRoomMark(t, c)
    \/ LeaveRoomSaveRoom(t)
    \/ LeaveRoomSessions(t)

StateStep(t) ==
    \/ \E c \in PlayerCalls("get_room_state") : GetRoomStateCheck(t, c)
    \/ GetRoomStateUpdate(t)
    \/ GetRoomStateBuild(t)

TravelStep(t) ==
    \/ \E c \in TravelCalls : PlayerTravelMove(t, c)
    \/ PlayerTravelSaveRoom(t)

MarketStep(t, trades, fuels) ==
    \/ \E c \in trades : PlayerTradeApply(t, c)
    \/ \E c \in fuels : PlayerBuyFuelApply(t, c)
    \/ RelockBlocks(t)
    \/ RelockPanics(t)

QueryStep(t) ==
    \/ \E c \in ListCalls : ListRooms(t, c)
    \/ \E c \in FindCalls : FindPlayerSessions(t, c)

BoardStep(t) ==
    \/ \E c \in PostCalls : PostMessagePost(t, c)
    \/ PostMessageSaveRoom(t)
    \/ \E c \in PlayerCalls("get_messages") : GetMessages(t, c)

\* Spec: the roster over time.  One request thread creates, joins, leaves
\* and polls while the clock advances.
Next ==
    \/ \E t \in {1} : \/ Return(t)
                      \/ CreateStep(t, CreateCalls)
                      \/ JoinStep(t)
                      \/ LeaveStep(t, PlayerCalls("leave_room"))
                      \/ StateStep(t)
    \/ \E d \in Elapsed : Tick(d)

Spec == Init /\ [][Next]_vars

\* SpecTravel: leaving, travelling and joining again.  One request thread;
\* the clock moves once, to the end of the run's time.
NextTravel ==
    \/ \E t \in {1} : \/ Return(t)
                      \/ CreateStep(t, CreateCalls)
                      \/ JoinStep(t)
                      \/ LeaveStep(t, PlayerCalls("leave_room"))
                      \/ TravelStep(t)
    \/ \E d \in {MaxTime} : Tick(d)

SpecTravel == Init /\ [][NextTravel]_vars

\* SpecMarket: trading and refuelling.  One request thread; the clock stands.
NextMarket ==
    \E t \in {1} : \/ Return(t)
                   \/ CreateStep(t, CreateCalls)
                   \/ JoinStep(t)
                   \/ TravelStep(t)
                   \/ MarketStep(t, TradeCalls, FuelCalls)
                   \/ QueryStep(t)

SpecMarket == Init /\ [][NextMarket]_vars

\* SpecConc: two request threads on one room, both acting for its host.
ConcCreateCalls == {c \in CreateCalls : c.quantity = NoMax}

ConcLeaveCalls == {c \in PlayerCalls("leave_room") : c.player = 1}

ConcTradeCalls ==
    {c \in TradeCalls : c.player = 1 /\ c.cargo = "luxury" /\ c.action = "Buy"}

ConcFuelCalls == {c \in FuelCalls : c.player = 1 /\ c.quantity = 20}

NextConc ==
    \E t \in Threads : \/ Return(t)
                       \/ CreateStep(t, ConcCreateCalls)
                       \/ LeaveStep(t, ConcLeaveCalls)
                       \/ MarketStep(t, ConcTradeCalls, ConcFuelCalls)

SpecConc == Init /\ [][NextConc]_vars

\* SpecRoom: one GameRoom, built once and driven through its own methods
\* over time.
NextRoom ==
    \/ \E t \in {1} : \/ Return(t)
                      \/ \E c \in RoomNewCalls : RoomNew(t, c)
                      \/ \E c \in AddPlayerCalls : RoomAddPlayer(t, c)
                      \/ \E c \in PlayerCalls("mark_player_offline") : RoomMarkOffline(t, c)
                      \/ \E c \in PlayerCalls("update_player_activity") :
                            RoomUpdateActivity(t, c)
    \/ \E d \in Elapsed : Tick(d)

SpecRoom == Init /\ [][NextRoom]_vars

\* SpecBoard: the message board of one room whose host posts, reads and
\* travels; every post reads a later instant.
NextBoard ==
    \E t \in {1} : \/ Return(t)
                   \/ CreateStep(t, ConcCreateCalls)
                   \/ TravelStep(t)
                   \/ BoardStep(t)

SpecBoard == Init /\ [][NextBoard]_vars

\* SpecRestart: one request thread creates, joins, leaves and travels; the
\* service may be stopped and started again between two requests.
NextRestart ==
    \/ \E t \in {1} : \/ Return(t)
                      \/ CreateStep(t, ConcCreateCalls)
                      \/ JoinStep(t)
                      \/ LeaveStep(t, PlayerCalls("leave_room"))
                      \/ TravelStep(t)
    \/ Restart

SpecRestart == Init /\ [][NextRestart]_vars

\* SpecFaulty: one request thread on a database that may refuse any
\* statement; only the host leaves, the board takes MaxFaultyPosts messages.
NextFaulty ==
    \E t \in {1} : \/ Return(t)
                   \/ CreateStep(t, ConcCreateCalls)
                   \/ JoinStep(t)
                   \/ LeaveStep(t, ConcLeaveCalls)
                   \/ TravelStep(t)
                   \/ \E c \in PostCalls :
                        PostMessagePost(t, c) /\ Len(posted'[c.room]) <= MaxFaultyPosts
                   \/ PostMessageSaveRoom(t)
                   \/ \E c \in FindCalls : FindPlayerSessions(t, c)

SpecFaulty == InitFaulty /\ [][NextFaulty]_vars

\* SpecActivity: the host of one room leaves, polls, travels, trades,
\* refuels and posts while the clock advances; the board takes
\* MaxActivityPosts messages.
MaxActivityPosts == 1

NextActivity ==
    \/ \E t \in {1} : \/ Return(t)
                      \/ CreateStep(t, ConcCreateCalls)
                      \/ LeaveStep(t, ConcLeaveCalls)
                      \/ StateStep(t)
                      \/ TravelStep(t)
                      \/ MarketStep(t, ConcTradeCalls, ConcFuelCalls)
                      \/ \E c \in PostCalls :
                           PostMessagePost(t, c) /\ Len(posted'[c.room]) <= MaxActivityPosts
                      \/ PostMessageSaveRoom(t)
    \/ \E d \in Elapsed : Tick(d)

SpecActivity == Init /\ [][NextActivity]_vars

\* SpecFlight: journeys of two legs by the players of one room.
NextFlight ==
    \E t \in {1} : \/ Return(t)
                   \/ CreateStep(t, ConcCreateCalls)
                   \/ JoinStep(t)
                   \/ \E c \in TravelCalls : PlayerTravelOn(t, c)
                   \/ PlayerTravelSaveRoom(t)

SpecFlight == Init /\ [][NextFlight]_vars

\* SpecPlayer: one Player value driven through its own methods.
NextPlayer ==
    \E t \in {1} : \/ Return(t)
                   \/ \E c \in PlayerNewCalls : PlayerMake(t, c)
                   \/ \E c \in SpendCalls : PlayerSpendMoney(t, c)
                   \/ \E c \in ConsumeCalls : PlayerConsumeFuel(t, c)
                   \/ \E c \in AddFuelCalls : PlayerAddFuel(t, c)
                   \/ \E c \in AddFuelCalls : PlayerAddFuelPanics(t, c)

SpecPlayer == Init /\ [][NextPlayer]_vars

\* SpecHold: the market of one room with a purchase whose products leave the
\* 32 bits; the build decides between the wrapped result and the panic.
HoldTradeCalls ==
    {Call("player_trade", r, p, "", "", q[1], q[2], q[3]) :
        r \in RoomIds, p \in PlayerIds,
        q \in {<<"industrial", 858993460, "Buy">>, <<"luxury", 3, "Buy">>}}

NextHold ==
    \E t \in {1} : \/ Return(t)
                   \/ CreateStep(t, CreateCalls)
                   \/ JoinStep(t)
                   \/ TravelStep(t)
                   \/ MarketStep(t, HoldTradeCalls, FuelCalls)
                   \/ \E c \in HoldTradeCalls : PlayerTradePanics(t, c)

SpecHold == Init /\ [][NextHold]_vars

\* SpecTurn: one request thread runs every operation of a room: create, join,
\* leave, poll, travel (two legs), trade, refuel and post.
NextTurn ==
    \E t \in {1} : \/ Return(t)
                   \/ CreateStep(t, ConcCreateCalls)
                   \/ JoinStep(t)
                   \/ LeaveStep(t, PlayerCalls("leave_room"))
                   \/ StateStep(t)
                   \/ \E c \in TravelCalls : PlayerTravelOn(t, c)
                   \/ PlayerTravelSaveRoom(t)
                   \/ MarketStep(t, ConcTradeCalls, ConcFuelCalls)
                   \/ \E c \in PostCalls :
                        PostMessagePost(t, c) /\ Len(posted'[c.room]) <= MaxActivityPosts
                   \/ PostMessageSaveRoom(t)

SpecTurn == Init /\ [][NextTurn]_vars

\* SpecSnapshot: two request threads; one creates the room, the other joins
\* it and travels while the first may still be short of its save_room.
\* The travelling player's id has been handed out: no create_room or
\* join_room that minted it is still short of its response (the room id is
\* public through list_rooms as soon as the room is in the registry).
IdHandedOut(c) ==
    /\ c.room \in DOMAIN rooms
    /\ c.player \in DOMAIN rooms[c.room].players
    /\ \A u \in Threads :
          pc[u] \in {"idle", "done"} \/ local[u].player_id # c.player

NextSnapshot ==
    \E t \in Threads : \/ Return(t)
                       \/ CreateStep(t, ConcCreateCalls)
                       \/ JoinStep(t)
                       \/ \E c \in TravelCalls : IdHandedOut(c) /\ PlayerTravelMove(t, c)
                       \/ PlayerTravelSaveRoom(t)

SpecSnapshot == Init /\ [][NextSnapshot]_vars

\* SpecLeave: one request thread creates, joins, leaves and asks where a
\* name is playing.
NextLeave ==
    \E t \in {1} : \/ Return(t)
                   \/ CreateStep(t, ConcCreateCalls)
                   \/ JoinStep(t)
                   \/ LeaveStep(t, PlayerCalls("leave_room"))
                   \/ \E c \in FindCalls : FindPlayerSessions(t, c)

SpecLeave == Init /\ [][NextLeave]_vars

\* SpecRemove: a room built directly, players added to it and removed from it.
NextRemove ==
    \E t \in {1} : \/ Return(t)
                   \/ \E c \in RoomNewCalls : RoomNew(t, c)
                   \/ \E c \in AddPlayerCalls : RoomAddPlayer(t, c)
                   \/ \E c \in PlayerCalls("remove_player") : RoomRemovePlayer(t, c)

SpecRemove == Init /\ [][NextRemove]_vars

\* SpecDatabase: the Database driven through its own methods, on a file that
\* another writer may have touched.
NextDatabase ==
    \/ ForeignRoomRow
    \/ ForeignSessionRow
    \/ \E t \in {1} : \/ Return(t)
                      \/ \E c \in SaveRoomCalls : DbSaveRoom(t, c)
                      \/ \E c \in SaveSessionCalls : DbSaveSession(t, c)
                      \/ \E c \in LoadCalls("load_all_rooms") : DbLoadAllRooms(t, c)
                      \/ \E c \in LoadCalls("load_all_sessions") : DbLoadAllSessions(t, c)

SpecDatabase == Init /\ [][NextDatabase]_vars

\* SpecPoison: two request threads on one room, both acting for its host,
\* who leaves, polls, trades and refuels; a trade that panics poisons the
\* rooms lock.
ConcStateCalls == {c \in PlayerCalls("get_room_state") : c.player = 1}

NextPoison ==
    \E t \in Threads : \/ Return(t)
                       \/ CreateStep(t, ConcCreateCalls)
                       \/ LeaveStep(t, ConcLeaveCalls)
                       \/ \E c \in ConcStateCalls : GetRoomStateCheck(t, c)
                       \/ GetRoomStateUpdate(t)
                       \/ GetRoomStateBuild(t)
                       \/ MarketStep(t, ConcTradeCalls, ConcFuelCalls)

SpecPoison == Init /\ [][NextPoison]_vars

\* SpecRace: two request threads create, join and leave one room; a leave
\* is requested for a player the room and the session registry hold (ids
\* are not guessed).
KnownPlayer(c) ==
    /\ c.room \in DOMAIN rooms
    /\ c.player \in DOMAIN rooms[c.room].players
    /\ c.player \in DOMAIN sessions

NextRace ==
    \E t \in Threads : \/ Return(t)
                       \/ CreateStep(t, ConcCreateCalls)
                       \/ JoinStep(t)
                       \/ \E c \in PlayerCalls("leave_room") :
                            KnownPlayer(c) /\ LeaveRoomMark(t, c)
                       \/ LeaveRoomSaveRoom(t)
                       \/ LeaveRoomSessions(t)

SpecRace == Init /\ [][NextRace]_vars

\* SpecPair: MaxPairs rooms, each with its host, and MaxPairs single-player
\* sessions, on one request thread: the hosts leave, travel and post, the
\* sessions trade.
PairCalls(op, detail) ==
    {Call(op, r, p, "", detail[1], detail[2], detail[3], detail[4]) :
        r \in PairIds, p \in PlayerIds}

NextPair ==
    \E t \in {1} :
        \/ Return(t)
        \/ \E c \in ConcCreateCalls : CreateRoomInsertIn(t, c, PairIds)
        \/ CreateRoomSessions(t)
        \/ CreateRoomSaveRoom(t)
        \/ CreateRoomSaveSession(t)
        \/ \E c \in PairCalls("leave_room", <<"", "", 0, "">>) : LeaveRoomMark(t, c)
        \/ LeaveRoomSaveRoom(t)
        \/ LeaveRoomSessions(t)
        \/ \E c \in PairCalls("player_travel", <<"ORD", "", 0, "">>) :
             PlayerTravelMove(t, c)
        \/ PlayerTravelSaveRoom(t)
        \/ \E c \in PairCalls("post_message", <<"", "", 500, "">>) :
             PostMessagePost(t, c) /\ Len(posted'[c.room]) <= MaxActivityPosts
        \/ PostMessageSaveRoom(t)
        \/ \E c \in CreateGameCalls :
             c.airport = NoAirport /\ c.quantity = NoMax /\ CreateGameIn(t, c, PairIds)
        \/ \E c \in PairCalls("trade", <<"", "industrial", 3, "Buy">>) :
             c.player = NoId + 1 /\ GameTrade(t, [c EXCEPT !.player = NoId])

SpecPair == Init /\ [][NextPair]_vars

\* SpecGame: the single-player service on one request thread.
GameStep(t) ==
    \/ \E c \in CreateGameCalls : CreateGame(t, c)
    \/ \E c \in GameCalls("get_game_state") : GetGameState(t, c)
    \/ \E c \in GameTravelCalls : GameTravel(t, c)
    \/ \E c \in GameTradeCalls : GameTrade(t, c)
    \/ \E c \in GameFuelCalls : GameBuyFuel(t, c)
    \/ \E c \in GameTradeCalls \cup GameFuelCalls : GameArithmeticPanics(t, c)

NextGame == \E t \in {1} : Return(t) \/ GameStep(t)

\* SpecGameConc: two request threads create sessions of the single-player
\* service, trade and refuel; each operation runs under the sessions guard.
NextGameConc ==
    \E t \in Threads :
        \/ Return(t)
        \/ \E c \in CreateGameCalls : CreateGame(t, c)
        \/ \E c \in GameTradeCalls : GameTrade(t, c)
        \/ \E c \in GameFuelCalls : GameBuyFuel(t, c)
        \/ \E c \in GameTradeCalls \cup GameFuelCalls : GameArithmeticPanics(t, c)

SpecGameConc == Init /\ [][NextGameConc]_vars

SpecGame == Init /\ [][NextGame]_vars

\* ================================================================= claims
\* The step of thread t that takes a request of operation op.
Takes(t, op) == pc[t] = "idle" /\ call'[t].op = op

OnlineNumber(room) ==
    Cardinality({id \in DOMAIN room.players : room.players[id].is_online})

\* C1: in every reachable state of a room the number of players whose
\* is_online flag is true is at most the room's max_players.
C1_OnlineWithinMax ==
    \A r \in DOMAIN rooms : OnlineNumber(rooms[r]) <= rooms[r].max_players

\* The add_player block of a join_room by thread t succeeds for a name that
\* joined the room before and whose player went offline through leave_room.
RejoinStep(t) ==
    /\ Takes(t, "join_room")
    /\ pc'[t] = "jr_sessions"
    /\ <<call'[t].room, call'[t].name>> \in DOMAIN first_id
    /\ <<call'[t].room, first_id[<<call'[t].room, call'[t].name>>]>> \in DOMAIN left_state

\* C2 (as stated): a successful join_room under the name of a player who
\* left through leave_room returns the id of the original join, puts the
\* player online, and the player's money, fuel, cargo, airport and joined_at
\* are exactly those held just before leaving.
C2_RejoinRestoresStateAtLeave ==
    [][\A t \in Threads : RejoinStep(t) =>
        LET r == call'[t].room
            id == first_id[<<r, call'[t].name>>]
        IN /\ local'[t].player_id = id
           /\ rooms'[r].players[id].is_online
           /\ rooms'[r].players[id].player = left_state[<<r, id>>].player
           /\ rooms'[r].players[id].joined_at = left_state[<<r, id>>].joined_at]_vars

\* C2 (amended): such a rejoin returns the id of the original join, puts the
\* player online and leaves the player's money, fuel, cargo, airport and
\* joined_at exactly as they were just before the rejoin, whatever starting
\* airport it names; and every successful join_room answers with the id the
\* first join under that name was given.
C2_RejoinKeepsState ==
    /\ [][\A t \in Threads : RejoinStep(t) =>
            LET r == call'[t].room
                id == first_id[<<r, call'[t].name>>]
            IN /\ local'[t].player_id = id
               /\ rooms'[r].players[id].is_online
               /\ rooms'[r].players[id].player = rooms[r].players[id].player
               /\ rooms'[r].players[id].joined_at = rooms[r].players[id].joined_at]_vars
    /\ [](\A t \in Threads :
            (pc[t] = "done" /\ call[t].op = "join_room" /\ resp[t].kind = "ok")
                => resp[t].player_id = first_id[<<call[t].room, call[t].name>>])

\* A player who left and travelled since has been re-admitted by a join_room
\* that named another starting airport.
C2_Witness ==
    \E t \in Threads :
        /\ pc[t] = "jr_sessions"
        /\ call[t].airport = "ZZZ"
        /\ <<call[t].room, local[t].player_id>> \in DOMAIN left_state
        /\ rooms[call[t].room].players[local[t].player_id].is_online
        /\ rooms[call[t].room].players[local[t].player_id].player.current_airport = "ORD"
        /\ left_state[<<call[t].room, local[t].player_id>>].player.current_airport = "JFK"

\* The room of request c holds an online player of c's name whose last_seen
\* lies at most five seconds back.
FreshDuplicate(c) ==
    /\ c.room \in DOMAIN rooms
    /\ \E id \in DOMAIN rooms[c.room].players :
        /\ rooms[c.room].players[id].player_name = c.name
        /\ rooms[c.room].players[id].is_online
        /\ now - rooms[c.room].players[id].last_seen <= StaleSeconds * 1000

\* C3: a join_room whose name is that of an online player of the room last
\* seen within the five-second window is rejected, and leaves the rooms
\* (roster, every player's state) and the session registry unchanged.
C3_FreshDuplicateRejected ==
    [][\A t \in Threads :
        (Takes(t, "join_room") /\ FreshDuplicate(call'[t])) =>
            /\ pc'[t] = "done"
            /\ resp'[t].kind = "err"
            /\ rooms' = rooms
            /\ sessions' = sessions
            /\ db_sessions' = db_sessions]_vars

\* A join under the name of an online player seen exactly five seconds ago
\* was turned down as a duplicate in a room that still has a free place.
C3_Witness ==
    \E t \in Threads :
        /\ pc[t] = "done"
        /\ call[t].op = "join_room"
        /\ resp[t] = Err("Player name already taken in this room")
        /\ \E id \in DOMAIN rooms[call[t].room].players :
            /\ rooms[call[t].room].players[id].player_name = call[t].name
            /\ rooms[call[t].room].players[id].is_online
            /\ now - rooms[call[t].room].players[id].last_seen = StaleSeconds * 1000

\* C4: in a room that is not full, add_player under the name of an online
\* player last seen strictly more than five seconds ago (whole or
\* fractional) succeeds as a rejoin: it returns that player's id, sets
\* last_seen to the current time, keeps is_online and changes nothing else
\* of the entry.
C4_StaleDuplicateRejoins ==
    [][\A t \in Threads : \A id \in PlayerIds :
        (/\ Takes(t, "add_player")
         /\ call'[t].room \in DOMAIN rooms
         /\ OnlineNumber(rooms[call'[t].room]) < rooms[call'[t].room].max_players
         /\ id \in DOMAIN rooms[call'[t].room].players
         /\ rooms[call'[t].room].players[id].player_name = call'[t].name
         /\ rooms[call'[t].room].players[id].is_online
         /\ now - rooms[call'[t].room].players[id].last_seen > StaleSeconds * 1000)
        => /\ resp'[t].kind = "ok"
           /\ resp'[t].player_id = id
           /\ rooms'[call'[t].room].players[id] =
                [rooms[call'[t].room].players[id] EXCEPT !.last_seen = now]]_vars

\* C5: add_player fails with "Room is full" whenever the online players
\* number max_players or more, whatever the offline players, the name and
\* the id; a failed add_player leaves the room unchanged; and a room whose
\* online players number less than max_players is never refused as full.
C5_FullRoomRefuses ==
    [][\A t \in Threads :
        (Takes(t, "add_player") /\ call'[t].room \in DOMAIN rooms) =>
            LET room == rooms[call'[t].room]
            IN /\ OnlineNumber(room) >= room.max_players
                    => resp'[t] = Err("Room is full")
               /\ resp'[t].kind = "err" => rooms' = rooms
               /\ OnlineNumber(room) < room.max_players
                    => resp'[t].message # "Room is full"]_vars

\* add_player was refused as full by a room that also holds an offline player.
C5_Witness ==
    \E t \in Threads :
        /\ pc[t] = "done"
        /\ call[t].op = "add_player"
        /\ resp[t] = Err("Room is full")
        /\ \E id \in DOMAIN rooms[call[t].room].players :
                ~rooms[call[t].room].players[id].is_online
        /\ OnlineNumber(rooms[call[t].room]) = rooms[call[t].room].max_players

\* The operation of thread t has ended, with a response or without one.
Settled(t) == pc[t] \in {"done", "panicked", "deadlocked"}

\* Both threads serve a Buy for player p of room r, who has bought nothing
\* else, each costing more than half and at most all of the starting money.
BuyPair(r, p) ==
    /\ r \in DOMAIN rooms
    /\ p \in DOMAIN rooms[r].players
    /\ rooms[r].player_statistics[p].fuel_purchased = 0
    /\ rooms[r].player_statistics[p].cargo_trades <= 1
    /\ \A t \in Threads :
        /\ call[t].op = "player_trade"
        /\ call[t].action = "Buy"
        /\ call[t].room = r
        /\ call[t].player = p
        /\ LET market == rooms[r].shared_state.markets[
                            rooms[r].players[p].player.current_airport]
               cost == market.cargo_prices[call[t].cargo] * call[t].quantity
           IN 2 * cost > StartingMoney /\ cost <= StartingMoney

\* C6: of two concurrent Buy requests for one player, each costing more than
\* half of the player's money and at most all of it, exactly one is answered
\* success = true and the other success = false for insufficient funds, and
\* the money left is the starting money less the cost of one purchase.
C6_ExactlyOneBuySucceeds ==
    \A r \in RoomIds : \A p \in PlayerIds :
        (BuyPair(r, p) /\ \A t \in Threads : Settled(t)) =>
            \E w \in Threads : \E l \in Threads \ {w} :
                /\ resp[w].kind = "ok"
                /\ resp[w].success
                /\ resp[l] = TradeFail("Insufficient funds")
                /\ rooms[r].players[p].player.money = StartingMoney - resp[w].value

\* C7: every operation returns to its caller with the rooms lock released:
\* no thread is left blocked inside an operation or dies in it, and the
\* lock is never left poisoned for the operations that follow.
C7_OperationsReturn ==
    /\ \A t \in Threads : pc[t] \notin {"deadlocked", "panicked"}
    /\ ~rooms_lock.poisoned

\* C8: a thread that is about to write to the database (save_room,
\* save_session) does not hold the rooms lock.
C8_NoSaveUnderLock ==
    \A t \in Threads :
        pc[t] \in {"cr_save_room", "cr_save_session", "jr_save_session",
                   "lr_save_room", "pt_save_room", "pm_save_room"}
            => rooms_lock.holder # t

\* C9: a player_trade that ends without success (success = false or an
\* error) leaves every room as it was: the player's money, fuel and cargo,
\* the statistics, the turn number and the markets.
C9_FailedTradeChangesNothing ==
    [][\A t \in Threads :
        (Takes(t, "player_trade") /\ pc'[t] = "done") =>
            /\ ~resp'[t].success
            /\ rooms' = rooms]_vars

\* A Buy the player cannot pay was refused, the player still at the
\* starting money with an empty hold.
C9_Witness ==
    \E t \in Threads :
        /\ pc[t] = "done"
        /\ call[t].op = "player_trade"
        /\ call[t].action = "Buy"
        /\ resp[t] = TradeFail("Insufficient funds")
        /\ rooms[call[t].room].players[call[t].player].player.money = StartingMoney
        /\ rooms[call[t].room].players[call[t].player].player.cargo_inventory[call[t].cargo] = 0

\* The player of fuel request c, when the request reaches a player at a
\* market of an unpoisoned service.
FuelPlayer(c) == rooms[c.room].players[c.player].player

FuelRequestReaches(c) ==
    /\ ~rooms_lock.poisoned
    /\ c.room \in DOMAIN rooms
    /\ c.player \in DOMAIN rooms[c.room].players
    /\ FuelPlayer(c).current_airport \in DOMAIN rooms[c.room].shared_state.markets

FuelPrice(c) ==
    rooms[c.room].shared_state.markets[FuelPlayer(c).current_airport].fuel_price

Exceeds(price, q, m) == Mul32(price, q).overflow \/ ~Leq32(Mul32(price, q), m)

\* Request c names something that does not exist: the session, the
\* destination airport or the cargo type (GameService), the room, the
\* player, the destination airport or the cargo type (room service).
GameLookupFails(c) ==
    \/ c.room \notin DOMAIN game.sessions
    \/ c.op = "travel" /\ c.airport \notin AirportIds
    \/ c.op = "trade" /\ c.cargo \notin CargoIds

RoomLookupFails(c) ==
    \/ c.room \notin DOMAIN rooms
    \/ c.player \notin DOMAIN rooms[c.room].players
    \/ c.op = "player_travel" /\ c.airport \notin AirportIds
    \/ c.op = "player_trade" /\ c.cargo \notin CargoIds

\* Request c breaks a business rule for the player p trading at market m:
\* not enough fuel for the leg, not enough money, not enough cargo to sell,
\* not enough room in the hold or in the tank.
RuleFails(p, m, c) ==
    \/ /\ c.op \in {"travel", "player_travel"}
       /\ fuel_needed_for_distance(p, distance_to(p.current_airport, c.airport)) > p.fuel
    \/ /\ c.op \in {"trade", "player_trade"}
       /\ c.action = "Buy"
       /\ \/ Exceeds(m.cargo_prices[c.cargo], c.quantity, p.money)
          \/ Exceeds(get_default_cargo_types[c.cargo].weight_per_unit, c.quantity,
                     p.max_cargo_weight)
    \/ /\ c.op \in {"trade", "player_trade"}
       /\ c.action = "Sell"
       /\ p.cargo_inventory[c.cargo] < c.quantity
    \/ /\ c.op \in {"buy_fuel", "player_buy_fuel"}
       /\ \/ Exceeds(m.fuel_price, c.quantity, p.money)
          \/ c.quantity > p.max_fuel - p.fuel

\* C11: a travel, trade or fuel request that breaks a business rule is
\* answered with a response whose success is false, one that names an
\* unknown session, room, player, destination or cargo type with an error
\* result, and in both cases the game state is left as it was.
C11_FailuresClassified ==
    [][\A t \in Threads :
        /\ (/\ Takes(t, "travel") \/ Takes(t, "trade") \/ Takes(t, "buy_fuel")
            /\ ~game.poisoned)
           => LET c == call'[t]
              IN /\ GameLookupFails(c)
                    => pc'[t] = "done" /\ resp'[t].kind = "err" /\ game' = game
                 /\ (/\ ~GameLookupFails(c)
                     /\ game.sessions[c.room].player.current_airport \in AirportIds
                     /\ RuleFails(game.sessions[c.room].player,
                                  game.sessions[c.room].markets[
                                      game.sessions[c.room].player.current_airport], c))
                    => /\ pc'[t] = "done"
                       /\ resp'[t].kind = "ok" /\ ~resp'[t].success
                       /\ game' = game
        /\ (/\ \/ Takes(t, "player_travel")
               \/ Takes(t, "player_trade")
               \/ Takes(t, "player_buy_fuel")
            /\ ~rooms_lock.poisoned)
           => LET c == call'[t]
              IN /\ RoomLookupFails(c)
                    => pc'[t] = "done" /\ resp'[t].kind = "err" /\ rooms' = rooms
                 /\ (/\ ~RoomLookupFails(c)
                     /\ rooms[c.room].players[c.player].player.current_airport
                            \in AirportIds
                     /\ RuleFails(rooms[c.room].players[c.player].player,
                                  rooms[c.room].shared_state.markets[
                                      rooms[c.room].players[c.player].player.current_airport],
                                  c))
                    => /\ pc'[t] = "done"
                       /\ resp'[t].kind = "ok" /\ ~resp'[t].success
                       /\ rooms' = rooms]_vars

\* The room of join request c is full, or holds an active player (online,
\* seen within the last five seconds) of the requested name.
JoinRefused(c) ==
    /\ c.room \in DOMAIN rooms
    /\ OnlineNumber(rooms[c.room]) >= rooms[c.room].max_players \/ FreshDuplicate(c)

\* C12 (as stated): a join_room on a full room, or under the name of an
\* active player of the room, completes with a response whose success is
\* false and changes no room and no session.
C12_JoinRefusedWithSuccessFalse ==
    [][\A t \in Threads :
        (Takes(t, "join_room") /\ JoinRefused(call'[t])) =>
            /\ pc'[t] = "done"
            /\ resp'[t].kind = "ok" /\ ~resp'[t].success
            /\ rooms' = rooms /\ sessions' = sessions /\ db_sessions' = db_sessions]_vars

\* C12 (amended): such a join_room is answered through the error channel
\* (when the rooms lock is granted, "Room is not joinable" for a full room
\* and "Player name already taken in this room" otherwise), and changes no
\* room and no session.
C12_JoinRefusedWithError ==
    [][\A t \in Threads :
        (Takes(t, "join_room") /\ JoinRefused(call'[t])) =>
            /\ pc'[t] = "done"
            /\ resp'[t].kind = "err"
            /\ ~rooms_lock.poisoned
               => resp'[t] =
                    IF OnlineNumber(rooms[call'[t].room]) >= rooms[call'[t].room].max_players
                    THEN Err("Room is not joinable")
                    ELSE Err("Player name already taken in this room")
            /\ rooms' = rooms /\ sessions' = sessions /\ db_sessions' = db_sessions
            /\ db_rooms' = db_rooms]_vars

\* A join was turned down by a room whose online players fill it.
C12_Witness ==
    \E t \in Threads :
        /\ pc[t] = "done"
        /\ call[t].op = "join_room"
        /\ resp[t] = Err("Room is not joinable")
        /\ OnlineNumber(rooms[call[t].room]) = rooms[call[t].room].max_players

\* The operations that act for one player of one room.
PlayerScoped ==
    {"leave_room", "get_room_state", "player_travel", "player_trade",
     "player_buy_fuel", "post_message", "get_messages"}

\* Request c names a room the registry does not hold, or a player that room
\* does not hold.
PlayerLookupFails(c) ==
    \/ c.room \notin DOMAIN rooms
    \/ c.player \notin DOMAIN rooms[c.room].players

\* C13: a player-scoped operation that names an unknown room, or a player
\* who is not in the room, changes no room and no session at any of its
\* steps and ends with an error result.
C13_UnknownPlayerIsLookupError ==
    [][\A t \in Threads :
        (/\ pc[t] \notin {"done", "panicked"}
         /\ call'[t].op \in PlayerScoped
         /\ ~rooms_lock.poisoned
         /\ PlayerLookupFails(call'[t]))
        => /\ rooms' = rooms
           /\ sessions' = sessions
           /\ pc'[t] = "done" => resp'[t].kind = "err"]_vars

\* The content of post request c is empty or longer than 500 bytes (so also
\* every content longer than 500 characters).
BadContent(c) == c.quantity = 0 \/ c.quantity > 500

\* C14 (as stated): a post_message whose content is empty or longer than 500
\* characters ends with an error result and leaves the board as it was.
C14_BadContentIsError ==
    [][\A t \in Threads :
        (/\ Takes(t, "post_message")
         /\ ~rooms_lock.poisoned
         /\ ~PlayerLookupFails(call'[t])
         /\ BadContent(call'[t]))
        => /\ pc'[t] = "done"
           /\ resp'[t].kind = "err"
           /\ rooms' = rooms]_vars

\* C14 (amended): such a post_message ends with a response whose success is
\* false and whose message is the board's reason, not with an error result,
\* and leaves the board, the room and its saved copy as they were.
C14_BadContentIsRefused ==
    [][\A t \in Threads :
        (/\ Takes(t, "post_message")
         /\ ~rooms_lock.poisoned
         /\ ~PlayerLookupFails(call'[t])
         /\ BadContent(call'[t]))
        => /\ pc'[t] = "done"
           /\ resp'[t] =
                Ok(FALSE,
                   IF call'[t].quantity = 0
                   THEN "Message content cannot be empty"
                   ELSE "Message content cannot exceed 500 characters", NoId, 0)
           /\ rooms' = rooms /\ db_rooms' = db_rooms /\ posted' = posted]_vars

\* A post of 501 bytes was refused by a board that already holds a message.
C14_Witness ==
    \E t \in Threads :
        /\ pc[t] = "done"
        /\ call[t].op = "post_message"
        /\ call[t].quantity = 501
        /\ resp[t].kind = "ok" /\ ~resp[t].success
        /\ call[t].room \in DOMAIN rooms
        /\ Len(rooms[call[t].room].message_board.messages) > 0

\* The last n elements of s (all of s when it is shorter).
LastOf(s, n) == SubSeq(s, Len(s) - Min(n, Len(s)) + 1, Len(s))

\* C15: a board of capacity N never holds more than N messages, and what it
\* holds is the last N messages it accepted, in the order they were posted.
C15_BoardHoldsLastPosts ==
    \A r \in DOMAIN rooms :
        LET board == rooms[r].message_board
        IN /\ Len(board.messages) <= board.max_messages
           /\ board.messages = LastOf(posted[r], board.max_messages)

\* A board that accepted more messages than it can hold.
C15_Witness ==
    \E r \in DOMAIN rooms :
        /\ Len(posted[r]) > rooms[r].message_board.max_messages
        /\ Len(rooms[r].message_board.messages) = rooms[r].message_board.max_messages
        /\ rooms[r].message_board.messages[1].id = 2

Reverse(s) == [i \in 1 .. Len(s) |-> s[Len(s) + 1 - i]]

\* C16: a get_messages returns the messages held for the airport the player
\* stands at, and no other, the latest post first, at most 20 of them, and
\* its total_count is the number of messages held for that airport.
C16_ReadsCurrentAirportNewestFirst ==
    \A t \in Threads :
        (pc[t] = "done" /\ call[t].op = "get_messages" /\ resp[t].kind = "ok")
        => LET room == rooms[call[t].room]
               here == room.players[call[t].player].player.current_airport
               held == AtAirport(room.message_board.messages, here)
           IN /\ resp[t].items = SubSeq(Reverse(held), 1, Min(20, Len(held)))
              /\ \A i \in 1 .. Len(resp[t].items) : resp[t].items[i].airport_id = here
              /\ resp[t].value = Len(held)

\* A read after a journey: the board still holds a message of the airport
\* the player left, and more than 20 of the airport it stands at.
C16_Witness ==
    \E t \in Threads :
        /\ pc[t] = "done" /\ call[t].op = "get_messages" /\ resp[t].kind = "ok"
        /\ Len(resp[t].items) = 20
        /\ resp[t].value > 20
        /\ rooms[call[t].room].players[call[t].player].player.current_airport # "JFK"
        /\ rooms[call[t].room].message_board.messages[1].airport_id = "JFK"

\* C17: the bound of 50 is per airport: a board never holds more than 50
\* messages of one airport, and an accepted post evicts no message that was
\* posted at another airport.
C17_PostsEvictOnlyOwnAirport ==
    [][\A r \in DOMAIN rooms :
        LET held == rooms[r].message_board.messages
        IN /\ \A a \in AirportIds : Len(AtAirport(held, a)) <= 50
           /\ Len(posted'[r]) > Len(posted[r])
              => \A i \in 1 .. Len(held) :
                    held[i].airport_id # posted'[r][Len(posted'[r])].airport_id
                    => InSeq(rooms'[r].message_board.messages, held[i])]_vars

\* C18: no step removes a room; a list_rooms lists every room, an emptied
\* one with 0 current players, WaitingForPlayers and joinable; and a
\* join_room on an emptied room is accepted.
C18_RoomsStayListed ==
    [][\A t \in Threads :
        /\ DOMAIN rooms \subseteq DOMAIN rooms'
        /\ Takes(t, "list_rooms")
           => /\ pc'[t] = "done"
              /\ resp'[t].kind = "ok"
              /\ \A r \in DOMAIN rooms :
                    \E i \in 1 .. Len(resp'[t].items) :
                        LET info == resp'[t].items[i]
                        IN /\ info.id = r
                           /\ OnlineNumber(rooms[r]) = 0
                              => /\ info.current_players = 0
                                 /\ info.game_status = "WaitingForPlayers"
                                 /\ info.is_joinable
        /\ (/\ Takes(t, "join_room")
            /\ call'[t].room \in DOMAIN rooms
            /\ OnlineNumber(rooms[call'[t].room]) = 0)
           => /\ pc'[t] = "jr_sessions"
              /\ OnlineNumber(rooms'[call'[t].room]) = 1]_vars

\* The roster of a room with what the claim names of each player.
Roster(room) ==
    [p \in DOMAIN room.players |->
        [money     |-> room.players[p].player.money,
         fuel      |-> room.players[p].player.fuel,
         cargo     |-> room.players[p].player.cargo_inventory,
         airport   |-> room.players[p].player.current_airport,
         is_online |-> room.players[p].is_online]]

\* C19: a service started on the database after a completed sequence of
\* operations holds every room of the old service, with the same roster
\* and the same money, fuel, cargo, airport and online flag of each player.
C19_RestartKeepsRosters ==
    [][Restart =>
        \A r \in DOMAIN rooms :
            /\ r \in DOMAIN rooms'
            /\ Roster(rooms'[r]) = Roster(rooms[r])]_vars

\* The places where a request thread is about to write to the database.
SavePoints ==
    {"cr_save_room", "cr_save_session", "jr_save_session", "lr_save_room",
     "pt_save_room", "pm_save_room"}

\* What the thread at a save point goes on to and answers when the write
\* succeeds.
AfterSave(t) ==
    CASE pc[t] = "cr_save_room" -> [pc |-> "cr_save_session", resp |-> NoResp]
      [] pc[t] = "cr_save_session" ->
            [pc |-> "done", resp |-> Ok(TRUE, "", local[t].player_id, local[t].room_id)]
      [] pc[t] = "jr_save_session" ->
            [pc |-> "done",
             resp |-> Ok(TRUE, "Successfully joined room", local[t].player_id, 0)]
      [] pc[t] = "lr_save_room" -> [pc |-> "lr_sessions", resp |-> NoResp]
      [] OTHER -> [pc |-> "done", resp |-> local[t].resp]

\* C20: at every write to the database, refused or not, the operation goes
\* on as it does after a successful write: same next step, same response
\* (never an error result), rooms and sessions in memory untouched.
C20_WriteFailureUnseen ==
    [][\A t \in Threads :
        (pc[t] \in SavePoints /\ pc'[t] # pc[t])
        => /\ pc'[t] = AfterSave(t).pc
           /\ resp'[t] = AfterSave(t).resp
           /\ resp'[t].kind # "err"
           /\ rooms' = rooms
           /\ sessions' = sessions]_vars

\* A join was acknowledged although its save_session was refused.
C20_Witness ==
    \E t \in Threads :
        /\ db_faulty
        /\ pc[t] = "done"
        /\ call[t].op = "join_room"
        /\ resp[t].kind = "ok" /\ resp[t].success
        /\ resp[t].player_id \in DOMAIN sessions
        /\ resp[t].player_id \notin DOMAIN db_sessions

\* C22: a create_room with max_players outside 1..8 returns an error and
\* adds no room and no session; an omitted max_players is 4; an accepted
\* create_room adds exactly one room, with the host as its only player
\* (online, at JFK, with 5000 money), WaitingForPlayers, at turn 1, and then
\* exactly one session, the host's, pointing at the new room.
C22_CreateRoomContract ==
    [][\A t \in Threads :
        /\ Takes(t, "create_room")
           => LET max_players == IF call'[t].quantity = NoMax THEN 4 ELSE call'[t].quantity
              IN IF max_players < 1 \/ max_players > 8
                 THEN /\ pc'[t] = "done"
                      /\ resp'[t].kind = "err"
                      /\ rooms' = rooms /\ sessions' = sessions
                 ELSE ~rooms_lock.poisoned
                      => /\ pc'[t] = "cr_sessions"
                         /\ sessions' = sessions
                         /\ \E r \in DOMAIN rooms' \ DOMAIN rooms :
                             LET room == rooms'[r]
                                 host == room.host_player_id
                             IN /\ rooms' = (r :> room) @@ rooms
                                /\ local'[t].room_id = r /\ local'[t].player_id = host
                                /\ room.max_players = max_players
                                /\ DOMAIN room.players = {host}
                                /\ room.players[host].is_online
                                /\ room.players[host].player_name = call'[t].name
                                /\ room.players[host].player.current_airport = "JFK"
                                /\ room.players[host].player.money = 5000
                                /\ room.game_status = "WaitingForPlayers"
                                /\ room.shared_state.turn_number = 1
        /\ (pc[t] = "cr_sessions" /\ pc'[t] # pc[t])
           => /\ rooms' = rooms
              /\ local[t].player_id \notin DOMAIN sessions
              /\ DOMAIN sessions' = DOMAIN sessions \cup {local[t].player_id}
              /\ \A p \in DOMAIN sessions : sessions'[p] = sessions[p]
              /\ sessions'[local[t].player_id].game_room_id = local[t].room_id
        /\ (call[t].op = "create_room" /\ pc[t] \in {"cr_save_room", "cr_save_session"})
           => /\ rooms' = rooms /\ sessions' = sessions
              /\ pc'[t] = "done"
                 => resp'[t] = Ok(TRUE, "", local[t].player_id, local[t].room_id)]_vars

\* A create_room without max_players was answered: the room takes 4.
C22_Witness ==
    \E t \in Threads :
        /\ pc[t] = "done"
        /\ call[t].op = "create_room"
        /\ call[t].quantity = NoMax
        /\ resp[t].kind = "ok"
        /\ rooms[resp[t].value].max_players = 4
        /\ sessions[resp[t].player_id].game_room_id = resp[t].value

\* C23: over every sequence of service operations a room's game_status
\* changes only along WaitingForPlayers -> InProgress, InProgress ->
\* WaitingForPlayers and InProgress -> Finished, and no room, old or new,
\* is ever Finished.
StatusEdges ==
    {<<"WaitingForPlayers", "InProgress">>,
     <<"InProgress", "WaitingForPlayers">>,
     <<"InProgress", "Finished">>}

C23_StatusTransitions ==
    [][/\ \A r \in DOMAIN rooms' : rooms'[r].game_status # "Finished"
       /\ \A r \in DOMAIN rooms \cap DOMAIN rooms' :
            \/ rooms'[r].game_status = rooms[r].game_status
            \/ <<rooms[r].game_status, rooms'[r].game_status>> \in StatusEdges]_vars

\* The last online player has left a room: the reset of leave_room ran.
C23_Witness ==
    \E t \in Threads :
        /\ pc[t] = "done"
        /\ call[t].op = "leave_room"
        /\ resp[t].kind = "ok"
        /\ call[t].room \in DOMAIN rooms
        /\ OnlineCount(rooms[call[t].room]) = 0
        /\ rooms[call[t].room].game_status = "WaitingForPlayers"

\* The operations through which a player acts on the room.
ActionOps == {"player_travel", "player_trade", "player_buy_fuel", "post_message"}

\* The stamp and the flag of player p of room r are the same after the step.
ActivityKept(r, p) ==
    /\ rooms'[r].players[p].last_seen = rooms[r].players[p].last_seen
    /\ rooms'[r].players[p].is_online = rooms[r].players[p].is_online

\* C24 (as stated): an accepted player_travel, player_trade,
\* player_buy_fuel or post_message by a player of the room sets that
\* player's last_seen to the time of the call and is_online to true.
C24_ActionsRefreshActivity ==
    [][\A t \in Threads :
        (/\ \E op \in ActionOps : Takes(t, op)
         /\ pc'[t] \in {"pt_save_room", "pm_save_room", "relock"})
        => LET p == rooms'[call'[t].room].players[call'[t].player]
           IN p.last_seen = now /\ p.is_online]_vars

\* C24 (amended): the update_player_activity of a get_room_state by a
\* player of the room sets that player's last_seen to the current time and
\* is_online to true; no step of a player_travel, player_trade,
\* player_buy_fuel or post_message changes the last_seen or the is_online of
\* any player.
C24_OnlyReadsRefreshActivity ==
    [][\A t \in Threads :
        /\ (/\ pc[t] = "gs_update" /\ pc'[t] = "gs_build"
            /\ call[t].room \in DOMAIN rooms
            /\ call[t].player \in DOMAIN rooms[call[t].room].players)
           => LET p == rooms'[call[t].room].players[call[t].player]
              IN p.last_seen = now /\ p.is_online
        /\ (call'[t].op \in ActionOps /\ pc'[t] # pc[t])
           => \A r \in DOMAIN rooms :
                /\ r \in DOMAIN rooms'
                /\ DOMAIN rooms'[r].players = DOMAIN rooms[r].players
                /\ \A p \in DOMAIN rooms[r].players : ActivityKept(r, p)]_vars

\* A player who left and travelled polls the room at a later time: the read
\* stamped the player and put the player online again.
C24_Witness ==
    \E t \in Threads :
        /\ pc[t] = "done"
        /\ call[t].op = "get_room_state"
        /\ resp[t].kind = "ok"
        /\ now > 0
        /\ <<call[t].room, call[t].player>> \in DOMAIN left_state
        /\ LET p == rooms[call[t].room].players[call[t].player]
           IN /\ p.last_seen = now
              /\ p.is_online
              /\ p.player.current_airport # "JFK"

\* ceil(distance / fuel_efficiency): the least whole number of fuel units
\* that covers the distance.
FuelRequired(distance, fuel_efficiency) ==
    CHOOSE n \in 0 .. distance :
        /\ n * fuel_efficiency >= distance
        /\ \A m \in 0 .. distance : m * fuel_efficiency >= distance => n <= m

\* C25: a player_travel of a player of the room, standing at an airport of
\* the catalogue (so that the distance exists), to an existing destination
\* is accepted iff ceil(distance / fuel_efficiency) is at most the player's
\* fuel; an accepted travel takes exactly that much fuel, moves the player
\* to the destination, appends the destination to airports_visited unless
\* it is there already, adds 1 to the turn number and answers success; a
\* rejected one answers success=false and changes nothing of the room.
C25_TravelContract ==
    [][\A t \in Threads :
        /\ (/\ Takes(t, "player_travel")
            /\ ~rooms_lock.poisoned
            /\ call'[t].room \in DOMAIN rooms
            /\ call'[t].player \in DOMAIN rooms[call'[t].room].players
            /\ call'[t].airport \in DOMAIN rooms[call'[t].room].shared_state.airports
            /\ rooms[call'[t].room].players[call'[t].player].player.current_airport
                  \in DOMAIN rooms[call'[t].room].shared_state.airports)
           => LET r == call'[t].room
                  id == call'[t].player
                  dest == call'[t].airport
                  p == rooms[r].players[id].player
                  q == rooms'[r].players[id].player
                  visited == rooms[r].player_statistics[id].airports_visited
                  need == FuelRequired(distance_to(p.current_airport, dest),
                                       p.fuel_efficiency)
              IN IF need <= p.fuel
                 THEN /\ pc'[t] = "pt_save_room"
                      /\ local'[t].resp.success
                      /\ local'[t].resp.value = need
                      /\ q.fuel = p.fuel - need
                      /\ q.current_airport = dest
                      /\ rooms'[r].player_statistics[id].airports_visited =
                            IF \E i \in 1 .. Len(visited) : visited[i] = dest
                            THEN visited
                            ELSE visited \o <<dest>>
                      /\ rooms'[r].shared_state.turn_number =
                            rooms[r].shared_state.turn_number + 1
                 ELSE /\ pc'[t] = "done"
                      /\ resp'[t].kind = "ok" /\ ~resp'[t].success
                      /\ rooms' = rooms
        /\ (pc[t] = "pt_save_room" /\ pc'[t] # pc[t])
           => /\ rooms' = rooms
              /\ pc'[t] = "done"
              /\ resp'[t] = local[t].resp]_vars

\* A player flew to an airport and then travelled to it again: the second
\* travel took a turn and no fuel, and the airport is listed once.
C25_Witness ==
    \E t \in Threads :
        /\ pc[t] = "done"
        /\ call[t].op = "player_travel"
        /\ resp[t].kind = "ok" /\ resp[t].success
        /\ LET room == rooms[call[t].room]
           IN /\ room.shared_state.turn_number = 3
              /\ room.players[call[t].player].player.current_airport = call[t].airport
              /\ room.players[call[t].player].player.fuel < MaxFuel
              /\ room.player_statistics[call[t].player].airports_visited
                    = <<call[t].airport>>

\* C26: for all money and cost values spend_money(cost) returns true and
\* takes exactly cost from money iff cost <= money; otherwise it returns
\* false and leaves money as it was; money is never negative.
C26_SpendMoneyContract ==
    [][\A t \in Threads :
        Takes(t, "spend_money")
        => LET cost == call'[t].quantity
               money == lone_player.money
           IN /\ pc'[t] = "done"
              /\ resp'[t].success = (cost <= money)
              /\ lone_player'.money = IF cost <= money THEN money - cost ELSE money
              /\ lone_player'.money >= 0
              /\ lone_player' = [lone_player EXCEPT !.money = lone_player'.money]]_vars

\* The whole balance was spent: the call answered true and left no money.
C26_Witness ==
    \E t \in Threads :
        /\ pc[t] = "done"
        /\ call[t].op = "spend_money"
        /\ call[t].quantity = 5000
        /\ resp[t].success
        /\ lone_player.money = 0

\* The exact value of fuel + q is at most m (q any u32 amount).
SumWithin(fuel, q, m) ==
    LET sum == Add32(W32(fuel), q) IN ~sum.overflow /\ Leq32(sum, m)

\* C27: for all fuel levels and quantities add_fuel(q) returns and sets fuel
\* to min(fuel + q, max_fuel), and consume_fuel(q) takes exactly q from fuel
\* and returns true iff q <= fuel, and otherwise returns false and leaves
\* fuel as it was.
C27_FuelContract ==
    [][\A t \in Threads :
        /\ Takes(t, "add_fuel")
           => LET q == call'[t].quantity
                  fuel == lone_player.fuel
                  max_fuel == lone_player.max_fuel
              IN /\ pc'[t] = "done"
                 /\ lone_player'.fuel = IF SumWithin(fuel, q, max_fuel)
                                        THEN fuel + Val32(q)
                                        ELSE max_fuel
                 /\ lone_player'.fuel <= max_fuel
        /\ Takes(t, "consume_fuel")
           => LET q == call'[t].quantity
                  fuel == lone_player.fuel
              IN /\ pc'[t] = "done"
                 /\ resp'[t].success = (q <= fuel)
                 /\ lone_player'.fuel = IF q <= fuel THEN fuel - q ELSE fuel]_vars

\* C21: an operation that answers "Failed to acquire rooms lock" has changed
\* no room and no session.
C21_LockErrorAppliesNothing ==
    \A t \in Threads : (pc[t] = "done" /\ resp[t] = LockErr) => ~applied[t]

\* No request is under way.
Quiescent == \A t \in Threads : pc[t] \in {"idle", "done"}

\* What every sequence of create_room, join_room and leave_room, run one
\* after the other, leaves behind: a player of a room is online exactly when
\* the player's session points at the room.
OnlineMatchesSession ==
    \A r \in DOMAIN rooms : \A p \in DOMAIN rooms[r].players :
        rooms[r].players[p].is_online
            <=> (p \in DOMAIN sessions /\ sessions[p].game_room_id = r)

\* C28: create_room, join_room and leave_room are linearizable on the
\* room and session state: once no request is under way, the online flags
\* and the session registry are those of the same requests run in some
\* sequential order, in which a player is online in a room exactly when the
\* player's session points at it.
C28_QuiescentAsSequential == Quiescent => OnlineMatchesSession

\* What the request c costs in a session: a purchase its price times the
\* quantity, as a W32 value.
RequestCost(gs, c) ==
    LET market == gs.markets[gs.player.current_airport]
    IN IF c.op = "buy_fuel" THEN Mul32(market.fuel_price, c.quantity)
       ELSE Mul32(market.cargo_prices[c.cargo], c.quantity)

\* C29: trade and fuel requests that threads make on one single-player
\* session all complete, and each changes the player's money by what it
\* reports: a request that reports success takes exactly its cost (a sale
\* adds its revenue), any other leaves the money as it was; so the money
\* is the starting money less the cost of the requests that succeeded.
C29_ConcurrentRequestsAccounted ==
    [][\A t \in Threads :
        (/\ Takes(t, "trade") \/ Takes(t, "buy_fuel")
         /\ call'[t].room \in DOMAIN game.sessions)
        => LET c == call'[t]
               gs == game.sessions[c.room]
               money == gs.player.money
               after == game'.sessions[c.room].player.money
           IN /\ pc'[t] = "done"
              /\ IF resp'[t].kind = "ok" /\ resp'[t].success
                 THEN LET cost == RequestCost(gs, c)
                      IN /\ ~cost.overflow /\ Fits31(cost)
                         /\ after = IF c.action = "Sell" THEN money + Val32(cost)
                                    ELSE money - Val32(cost)
                 ELSE after = money]_vars

\* The operations of the single-player service.
GameOps == {"create_game", "get_game_state", "travel", "trade", "buy_fuel"}

\* C30: a step of an operation on one room leaves every other room as it
\* was (its players, their money and inventories, its turn number and its
\* message board) and every single-player session too; a step of an
\* operation on one single-player session leaves every other session, its
\* statistics and every room as they were.
C30_OthersUntouched ==
    [][\A t \in Threads :
        (pc'[t] # pc[t] /\ call'[t].op # "none")
        => LET c == call'[t]
           IN /\ \A r \in DOMAIN rooms :
                    (c.op \in GameOps \/ r # c.room)
                    => r \in DOMAIN rooms' /\ rooms'[r] = rooms[r]
              /\ \A g \in DOMAIN game.sessions :
                    (c.op \notin GameOps \/ g # c.room)
                    => /\ g \in DOMAIN game'.sessions
                       /\ game'.sessions[g] = game.sessions[g]
                       /\ g \in DOMAIN game.statistics
                          => /\ g \in DOMAIN game'.statistics
                             /\ game'.statistics[g] = game.statistics[g]]_vars

\* A host has travelled while another room, with a message on its board,
\* still stands at its first turn, and one of two single-player sessions
\* has spent money the other still has.
C30_Witness ==
    \E t \in Threads :
        /\ pc[t] = "done"
        /\ call[t].op = "player_travel"
        /\ resp[t].kind = "ok" /\ resp[t].success
        /\ rooms[call[t].room].shared_state.turn_number = 2
        /\ \E r \in DOMAIN rooms \ {call[t].room} :
              /\ rooms[r].shared_state.turn_number = 1
              /\ Len(rooms[r].message_board.messages) = 1
        /\ \E g, h \in DOMAIN game.sessions :
              game.sessions[g].player.money < game.sessions[h].player.money

\* ------------------------------------------------------------------- C31
\* C31: a saved room or session is what a load of all records returns under
\* its id; a second save under the id replaces the first, the rows of the
\* other ids staying as they were; a load returns exactly the rows whose
\* data parses, each with the value last written, and changes no table.
ParsedRows(table) == {k \in DOMAIN table : table[k].data # Unparsable}

SaveKeeps(table, after, id, value) ==
    /\ id \in DOMAIN after
    /\ from_str(after[id].data) = [ok |-> TRUE, value |-> value]
    /\ DOMAIN after = DOMAIN table \cup {id}
    /\ \A k \in DOMAIN table \ {id} : after[k] = table[k]

LoadGives(table, r) ==
    /\ r.kind = "ok"
    /\ DOMAIN r.items = ParsedRows(table)
    /\ \A k \in ParsedRows(table) : to_string(r.items[k]) = table[k].data

C32_RemovePlayerContract ==
    [][\A t \in Threads :
        Takes(t, "remove_player") =>
            LET c == call'[t]
                room == rooms[c.room]
                after == rooms'[c.room]
            IN IF c.player \in DOMAIN room.players
               THEN /\ resp'[t].kind = "ok"
                    /\ after.players = Without(room.players, c.player)
                    /\ c.player \notin DOMAIN after.player_statistics
                    /\ \A p \in DOMAIN after.players :
                          /\ p \in DOMAIN after.player_statistics
                          /\ after.player_statistics[p] = room.player_statistics[p]
                    /\ (room.host_player_id = c.player /\ DOMAIN after.players # {})
                          => after.host_player_id \in DOMAIN after.players
               ELSE /\ resp'[t] = Err("Player not in room")
                    /\ rooms' = rooms]_vars

\* The host has been removed from a room that another player stays in.
C32_Witness ==
    \E t \in Threads :
        /\ pc[t] = "done" /\ call[t].op = "remove_player"
        /\ resp[t].kind = "ok"
        /\ call[t].room \in DOMAIN rooms
        /\ DOMAIN rooms[call[t].room].players # {}
        /\ call[t].player \notin DOMAIN rooms[call[t].room].players
        /\ rooms[call[t].room].host_player_id \in DOMAIN rooms[call[t].room].players
        /\ \E n \in PlayerNames :
              <<call[t].room, n>> \in DOMAIN first_id
              /\ first_id[<<call[t].room, n>>] = call[t].player

\* ------------------------------------------------------------------- C33
\* C33: in every state every player of every room has fuel <= max_fuel and
\* carries cargo whose total weight, the sum over the cargo types of
\* weight_per_unit times the quantity held, is <= max_cargo_weight.
WithinLimits(p, cargo_types) ==
    /\ p.fuel <= p.max_fuel
    /\ LET weight == total_weight(p.cargo_inventory, cargo_types)
       IN ~weight.overflow /\ Leq32(weight, p.max_cargo_weight)

C33_FuelAndHoldWithinLimits ==
    \A r \in DOMAIN rooms : \A p \in DOMAIN rooms[r].players :
        WithinLimits(rooms[r].players[p].player, rooms[r].shared_state.cargo_types)

\* ------------------------------------------------------------------- C34
\* C34: in every state no two entries of a room's players map carry the same
\* player_name.
C34_NamesUnique ==
    \A r \in DOMAIN rooms : \A p, q \in DOMAIN rooms[r].players :
        rooms[r].players[p].player_name = rooms[r].players[q].player_name => p = q

\* A join under the name of a player who had left has been re-attached to
\* that player's entry, in a room of two players.
C34_Witness ==
    \E t \in Threads :
        /\ pc[t] = "jr_sessions"
        /\ call[t].room \in DOMAIN rooms
        /\ <<call[t].room, local[t].player_id>> \in DOMAIN left_state
        /\ Cardinality(DOMAIN rooms[call[t].room].players) = 2
        /\ rooms[call[t].room].players[local[t].player_id].player_name = call[t].name
        /\ rooms[call[t].room].players[local[t].player_id].is_online

\* ------------------------------------------------------------------- C35
\* C35: after every step each player's money is the starting money plus the
\* total_revenue minus the total_expenses of the player's statistics, and a
\* step changes a player's money only as a trade or a fuel purchase that
\* this player requested in this room.
C35_MoneyAccounted ==
    [][\A r \in DOMAIN rooms' : \A p \in DOMAIN rooms'[r].players :
        /\ p \in DOMAIN rooms'[r].player_statistics
        /\ rooms'[r].players[p].player.money =
              StartingMoney + rooms'[r].player_statistics[p].total_revenue
                            - rooms'[r].player_statistics[p].total_expenses
        /\ (/\ r \in DOMAIN rooms
            /\ p \in DOMAIN rooms[r].players
            /\ rooms'[r].players[p].player.money # rooms[r].players[p].player.money)
              => \E t \in Threads :
                    /\ Takes(t, "player_trade") \/ Takes(t, "player_buy_fuel")
                    /\ call'[t].room = r /\ call'[t].player = p]_vars

\* A player has paid for a purchase: the money is below the starting money
\* by the expenses on record.
C35_Witness ==
    \E r \in DOMAIN rooms : \E p \in DOMAIN rooms[r].players :
        /\ rooms[r].player_statistics[p].total_expenses > 0
        /\ rooms[r].players[p].player.money < StartingMoney

\* ------------------------------------------------------------------- C36
\* C36: a room enters the registry with turn number 1; a step raises the
\* turn number of a room by exactly 1 when it is a player_travel in that
\* room that succeeds, and leaves it as it was in every other case (join,
\* leave, state read, trade, fuel purchase, post, refused travel).
SuccessfulTravel(r) ==
    \E t \in Threads :
        /\ Takes(t, "player_travel")
        /\ call'[t].room = r
        /\ pc'[t] = "pt_save_room"
        /\ local'[t].resp.success

C36_TurnCountsTravels ==
    [][\A r \in DOMAIN rooms' :
        rooms'[r].shared_state.turn_number =
            IF r \notin DOMAIN rooms THEN 1
            ELSE IF SuccessfulTravel(r) THEN rooms[r].shared_state.turn_number + 1
            ELSE rooms[r].shared_state.turn_number]_vars

\* Two travels have succeeded in a room that a second player has joined.
C36_Witness ==
    \E r \in DOMAIN rooms :
        /\ rooms[r].shared_state.turn_number = 3
        /\ Cardinality(DOMAIN rooms[r].players) = 2
        /\ \E t \in Threads : pc[t] = "done" /\ call[t].op = "player_travel"
                                /\ resp[t].success

\* ------------------------------------------------------------------- C37
\* C37: in every state, the state a restart loads included, a session that
\* names a room names a room of the registry whose players map holds the
\* session's player.
C37_SessionsPointAtRosters ==
    \A p \in DOMAIN sessions :
        sessions[p].game_room_id # NoId =>
            /\ sessions[p].game_room_id \in DOMAIN rooms
            /\ sessions[p].player_id \in DOMAIN rooms[sessions[p].game_room_id].players

\* ------------------------------------------------------------------- C38
\* C38: in every state every player of every room stands at an airport that
\* is a key of the room's airport catalog and of its markets.
C38_PlayersAtKnownAirports ==
    \A r \in DOMAIN rooms : \A p \in DOMAIN rooms[r].players :
        /\ rooms[r].players[p].player.current_airport
              \in DOMAIN rooms[r].shared_state.airports
        /\ rooms[r].players[p].player.current_airport
              \in DOMAIN rooms[r].shared_state.markets

\* ------------------------------------------------------------------- C39
\* C39: the persisted snapshot of a room does not fall behind what was
\* persisted before: once every request has run to its end, the turn the
\* rooms row holds is the turn the room has reached in memory (every travel,
\* the one operation that advances it, saves the room).
C39_PersistedTurnIsLatest ==
    Quiescent =>
        \A r \in DOMAIN rooms \cap DOMAIN load_all(db_rooms) :
            load_all(db_rooms)[r].shared_state.turn_number =
                rooms[r].shared_state.turn_number

\* ------------------------------------------------------------------- C40
\* C40: once leave_room(R, P) has returned success and until P joins R
\* again, no answer of find_player_sessions holds an entry that places P in
\* R.  (Requests run one after the other here; P has left R and has not
\* come back exactly when the room holds P offline, as only a leave does,
\* and P's session names no room.)
HasLeft(r, p) ==
    /\ <<r, p>> \in DOMAIN left_state
    /\ r \in DOMAIN rooms
    /\ p \in DOMAIN rooms[r].players
    /\ ~rooms[r].players[p].is_online
    /\ p \in DOMAIN sessions
    /\ sessions[p].game_room_id = NoId

C40_LeftPlayerNotListed ==
    \A t \in Threads :
        (pc[t] = "done" /\ call[t].op = "find_player_sessions" /\ resp[t].kind = "ok")
            => \A e \in resp[t].items : ~HasLeft(e.room_id, e.player_id)
====
